---- MODULE Spec2Model ----
(***************************************************************************)
(* Movie-rating backend (FastAPI + SQLAlchemy).  The state is the content  *)
(* of the relational store (users, movies, ratings, comments) together     *)
(* with the requests that are being served.  The specifications are given  *)
(* over the same variables:                                                *)
(*                                                                         *)
(*   Spec       the write handlers of the API, one action per SQL          *)
(*              statement (or flush) of a handler, so that requests        *)
(*              interleave the way concurrent sessions do under READ       *)
(*              COMMITTED;                                                 *)
(*   SpecRatings  create_or_update_rating and delete_rating on their own;  *)
(*   SpecStats  the read-only statistics endpoints, query by query, with   *)
(*              no other request, on every store drawn from bounded sets   *)
(*              of user demographics and ratings;                          *)
(*   SpecAgain  get_movie_statistics called again and again by a client    *)
(*              that keeps the last answer it was given;                   *)
(*   SpecReads  get_movie_statistics, query by query, next to the handlers *)
(*              that write ratings;                                        *)
(*   SpecDb     the session dependency get_db around a handler;            *)
(*   SpecOwner  the handlers reserved to the author of a row or an admin;  *)
(*   SpecAdmin  the handlers of the movie catalogue, reserved to admins;   *)
(*   SpecUsers  the accounts: register, update_user and login;             *)
(*   SpecPosts  the handlers that post a rating or a comment, with bodies  *)
(*              the schema refuses;                                        *)
(*   SpecList   the list of movies with its rating filter;                 *)
(*   SpecConnect  connect_with_retries, called on its own;                 *)
(*   SpecBoot   the start of the process in main.py: connect, create the   *)
(*              tables, init_db, serve.                                    *)
(*                                                                         *)
(* The store is PostgreSQL (app/core/config.py DATABASE_URL): NOT NULL,    *)
(* UNIQUE and FOREIGN KEY constraints are enforced by the database, each   *)
(* statement of a session sees what is committed when it is issued, and a  *)
(* string that is no UUID is refused by the server when the statement that *)
(* carries it is executed.                                                 *)
(***************************************************************************)
EXTENDS Integers, Sequences, FiniteSets, TLC

VARIABLES users, movies, ratings, comments, nextId, reqs, result

vars == <<users, movies, ratings, comments, nextId, reqs, result>>

(***************************************************************************)
(* Bounds of the model.                                                    *)
(***************************************************************************)
NumUsers == 2
NumMovies == 2
MaxRequests == 2

UserIds == 1..NumUsers
MovieIds == 1..NumMovies

(***************************************************************************)
(* Nullable column values: NULL is the empty set, a value v is {v}.        *)
(***************************************************************************)
Null == {}
Some(v) == {v}
TheValue(x) == CHOOSE v \in x : TRUE

(***************************************************************************)
(* Identifiers.  A UUID is modelled by a natural number; 0 is a UUID that  *)
(* is never allocated.  An identifier string as it arrives in a path or    *)
(* body is a spelling of a UUID (canonical lower case, or upper case), or  *)
(* a string that is no UUID at all.                                        *)
(***************************************************************************)
NilUuid == 0
Malformed == [form |-> "malformed", uuid |-> NilUuid]
Canonical(n) == [form |-> "canonical", uuid |-> n]
Upper(n) == [form |-> "upper", uuid |-> n]

\* uuid.UUID(value): the UUID a string spells, or ValueError (Null).
UUIDParse(s) == IF s.form = "malformed" THEN Null ELSE Some(s.uuid)

\* The dialect of the engine that settings.DATABASE_URL names.
dialect_name == "postgresql"

\* GUID.process_bind_param(value, dialect) for a string: on PostgreSQL the
\* value goes to the driver as it is; on any other dialect it is read
\* through uuid.UUID(value), which raises ValueError (Null) on a malformed
\* string, and written back in the canonical spelling.
process_bind_param(value, dialect) ==
    IF dialect = "postgresql" THEN Some(value)
    ELSE IF UUIDParse(value) = Null THEN Null
    ELSE Some(Canonical(TheValue(UUIDParse(value))))

\* The UUID a statement compares a GUID column with when the string s is
\* bound to it: the bind, then the store reading the literal it was sent.
\* Null when the statement raises.
GuidParam(s) ==
    LET b == process_bind_param(s, dialect_name)
    IN  IF b = Null THEN Null ELSE UUIDParse(TheValue(b))

\* What the statement raises then: StatementError when the bind raised,
\* DataError when the store refused the literal.
GuidError(s) ==
    IF process_bind_param(s, dialect_name) = Null THEN "StatementError" ELSE "DataError"

(***************************************************************************)
(* SQL three-valued logic, as used by the statistics queries.              *)
(***************************************************************************)
\* An equality that takes NULL for a match.
SqlEq_nullmatch(a, v) == IF a = Null THEN "T" ELSE IF TheValue(a) = v THEN "T" ELSE "F"
SqlEq(a, v) == IF a = Null THEN "U" ELSE IF TheValue(a) = v THEN "T" ELSE "F"
SqlNe(a, v) == IF a = Null THEN "U" ELSE IF TheValue(a) # v THEN "T" ELSE "F"
\* A comparison that includes the bound.
SqlLt_inclusive(a, v) == IF a = Null THEN "U" ELSE IF TheValue(a) <= v THEN "T" ELSE "F"
SqlLt(a, v) == IF a = Null THEN "U" ELSE IF TheValue(a) < v THEN "T" ELSE "F"
\* A range test that leaves out its upper bound.
SqlLe_exclusive(a, v) ==
    IF a = Null THEN "U" ELSE IF TheValue(a) < v THEN "T" ELSE "F"
SqlLe(a, v) == IF a = Null THEN "U" ELSE IF TheValue(a) <= v THEN "T" ELSE "F"
SqlGe(a, v) == IF a = Null THEN "U" ELSE IF TheValue(a) >= v THEN "T" ELSE "F"
SqlIsNull(a) == IF a = Null THEN "T" ELSE "F"
SqlAnd(x, y) ==
    IF x = "F" \/ y = "F" THEN "F" ELSE IF x = "U" \/ y = "U" THEN "U" ELSE "T"
\* An OR that is unknown as soon as one side is unknown.
SqlOr_strict(x, y) ==
    IF x = "U" \/ y = "U" THEN "U" ELSE IF x = "T" \/ y = "T" THEN "T" ELSE "F"
SqlOr(x, y) ==
    IF x = "T" \/ y = "T" THEN "T" ELSE IF x = "U" \/ y = "U" THEN "U" ELSE "F"
\* case((cond, 1), else_=0): 1 only when the condition is true, not unknown.
SqlCase(c) == IF c = "T" THEN 1 ELSE 0

\* The sum of f[x] over the rows x of S (f is a function on S).
RECURSIVE SumOver(_, _)
SumOver(S, f) ==
    IF S = {} THEN 0
    ELSE LET x == CHOOSE y \in S : TRUE IN f[x] + SumOver(S \ {x}, f)

\* func.sum(...) over a set of rows: NULL when there is no row.
SqlSum(S, f) == IF S = {} THEN Null ELSE Some(SumOver(S, f))

\* Python's `x or 0` on an aggregate: None and 0 both give 0.
OrZero(x) == IF x = Null THEN 0 ELSE TheValue(x)

RECURSIVE Gcd(_, _)
Gcd(a, b) == IF b = 0 THEN a ELSE Gcd(b, a % b)

\* An exact rational n/d in lowest terms, the value a float approximates.
Rat(n, d) == LET g == Gcd(n, d) IN <<n \div g, d \div g>>

\* func.avg(Rating.score): NULL when there is no row.
SqlAvg(S) ==
    IF S = {} THEN Null
    ELSE Some(Rat(SumOver(S, [r \in S |-> r.score]), Cardinality(S)))

\* float(avg or 0)
FloatOrZero(x) ==
    IF x = Null \/ x = Some(<<0, 1>>) THEN <<0, 1>> ELSE TheValue(x)

(***************************************************************************)
(* The statistics queries of get_movie_statistics, each over the store     *)
(* (U: users by id, R: rating rows) as one SQL statement sees it.          *)
(***************************************************************************)
\* A lookup that takes every identifier for a movie.
MovieFound_any(M, m) == TRUE

\* db.query(Movie).filter(Movie.id == movie_id).first()
MovieFound(M, m) == m \in DOMAIN M

\* The aggregate without its filter on the movie.
RatingsOfMovie_all(R, m) == R

\* ... .filter(Rating.movie_id == movie_id)
RatingsOfMovie(R, m) == {r \in R : r.movie = m}

\* The join without its filter on the movie.
RaterRows_all(U, R, m) == {r \in R : r.user \in DOMAIN U}

\* ... .join(Rating, Rating.user_id == User.id).filter(Rating.movie_id == movie_id)
RaterRows(U, R, m) == {r \in R : r.movie = m /\ r.user \in DOMAIN U}

\* func.sum(case((cond, 1), else_=0)) or 0, cond(r) given as a function on J.
CountWhere(J, cond) == OrZero(SqlSum(J, [r \in J |-> SqlCase(cond[r])]))

BasicStats(R, m) ==
    LET S == RatingsOfMovie(R, m)
    IN  [average_rating |-> FloatOrZero(SqlAvg(S)),
         total_ratings |-> Cardinality(S)]

AgeStats(U, R, m) ==
    LET J == RaterRows(U, R, m)
        age(r) == U[r.user].age
    IN  [under18 |-> CountWhere(J, [r \in J |-> SqlLt(age(r), 18)]),
         age18to24 |->
            CountWhere(J, [r \in J |-> SqlAnd(SqlGe(age(r), 18), SqlLe(age(r), 24))]),
         age25to34 |->
            CountWhere(J, [r \in J |-> SqlAnd(SqlGe(age(r), 25), SqlLe(age(r), 34))]),
         age35to44 |->
            CountWhere(J, [r \in J |-> SqlAnd(SqlGe(age(r), 35), SqlLe(age(r), 44))]),
         age45to54 |->
            CountWhere(J, [r \in J |-> SqlAnd(SqlGe(age(r), 45), SqlLe(age(r), 54))]),
         age55plus |-> CountWhere(J, [r \in J |-> SqlGe(age(r), 55)])]

GenderStats(U, R, m) ==
    LET J == RaterRows(U, R, m)
        g(r) == U[r.user].gender
    IN  [male |-> CountWhere(J, [r \in J |-> SqlEq(g(r), "male")]),
         female |-> CountWhere(J, [r \in J |-> SqlEq(g(r), "female")]),
         other |-> CountWhere(J, [r \in J |-> SqlEq(g(r), "other")]),
         not_specified |->
            CountWhere(J, [r \in J |->
                SqlOr(SqlAnd(SqlAnd(SqlNe(g(r), "male"), SqlNe(g(r), "female")),
                             SqlNe(g(r), "other")),
                      SqlIsNull(g(r)))])]

ContinentStats(U, R, m) ==
    LET J == RaterRows(U, R, m)
        c(r) == U[r.user].continent
    IN  [africa |-> CountWhere(J, [r \in J |-> SqlEq(c(r), "africa")]),
         asia |-> CountWhere(J, [r \in J |-> SqlEq(c(r), "asia")]),
         europe |-> CountWhere(J, [r \in J |-> SqlEq(c(r), "europe")]),
         north_america |-> CountWhere(J, [r \in J |-> SqlEq(c(r), "north_america")]),
         south_america |-> CountWhere(J, [r \in J |-> SqlEq(c(r), "south_america")]),
         australia |-> CountWhere(J, [r \in J |-> SqlEq(c(r), "australia")]),
         antarctica |-> CountWhere(J, [r \in J |-> SqlEq(c(r), "antarctica")])]

\* The grouped query: one row (country, count) per non-NULL country.
CountryRows(U, R, m) ==
    LET J == {r \in RaterRows(U, R, m) : SqlIsNull(U[r.user].country) # "T"}
        keys == {TheValue(U[r.user].country) : r \in J}
    IN  [k \in keys |-> Cardinality({r \in J : U[r.user].country = Some(k)})]

\* The loop without its test: every grouped row becomes a key.
CountryStats_all(U, R, m) == CountryRows(U, R, m)

\* The loop that fills country_stats: `if country:` skips the empty string.
CountryStats(U, R, m) ==
    LET rows == CountryRows(U, R, m)
    IN  [k \in {c \in DOMAIN rows : c # ""} |-> rows[k]]

\* raise HTTPException(status_code=..., detail=...)
HTTPException(status, detail) ==
    [outcome |-> "HTTPException", status |-> status, detail |-> detail]

NotFound == HTTPException(404, "Movie not found")

\* An exception no handler catches: the framework answers 500.
ServerError(e) == [outcome |-> "Error", status |-> 500, detail |-> e]

\* A handler that returns normally.
Success(status) == [outcome |-> "OK", status |-> status, detail |-> ""]

NoResponse == [outcome |-> "none", status |-> 0, detail |-> ""]

\* The aggregate of get_movie_rating_stats: func.avg(Rating.score) and
\* func.count(Rating.id), and what the return makes of them.
RatingStats(R, m) ==
    LET S == RatingsOfMovie(R, m)
    IN  [average_score |-> FloatOrZero(SqlAvg(S)),
         total_ratings |-> Cardinality(S)]

(***************************************************************************)
(* The rows of the store.                                                  *)
(***************************************************************************)
MinScore == 1
MaxScore == 10
Scores == MinScore..MaxScore

\* The scores of the ratings in the stores SpecStats draws.
ScoresTried == {MinScore, MaxScore}

UserRow(age, gender, country, continent, admin) ==
    [age |-> age, gender |-> gender, country |-> country,
     continent |-> continent, is_admin |-> admin]

\* A user registered without demographic fields.
PlainUser == UserRow(Null, Null, Null, Null, FALSE)

\* create_test_users: the users the application seeds, the first an admin.
SeedUsers ==
    <<UserRow(Some(30), Some("Male"), Some("USA"), Some("NA"), TRUE),
      UserRow(Some(25), Some("Male"), Some("UK"), Some("EU"), FALSE),
      UserRow(Some(28), Some("Female"), Some("Canada"), Some("NA"), FALSE),
      UserRow(Some(22), Some("Female"), Some("Australia"), Some("OC"), FALSE),
      UserRow(Some(35), Some("Male"), Some("Germany"), Some("EU"), FALSE)>>

\* Movie.title: what a movie is called when created, and after an update.
CreatedTitle == "created"
MovieTitles == {CreatedTitle, "retitled"}

MovieRow(title) == [title |-> title]

\* create_test_movies: the movies the application seeds.
SeedMovies == [m \in MovieIds |-> MovieRow(CreatedTitle)]

RatingRow(id, m, u, s) == [id |-> id, movie |-> m, user |-> u, score |-> s]
\* Comment.text: what a comment says when posted, and after an edit.
PostedText == "posted"
CommentTexts == {PostedText, "edited"}

CommentRow(id, m, u) == [id |-> id, movie |-> m, user |-> u, text |-> PostedText]

\* The id of the rating of movie m by user u in a seeded or drawn store.
DrawnId(u, m) == NumMovies + (u - 1) * NumMovies + m

\* A table without the constraint.
uq_user_movie_rating_off(R, u, m) == TRUE

\* UniqueConstraint('user_id', 'movie_id'): may a row for (u, m) be inserted?
uq_user_movie_rating(R, u, m) == ~\E r \in R : r.user = u /\ r.movie = m

\* ForeignKey("movies.id") and ForeignKey("users.id") of an inserted row.
ForeignKeysHold(U, M, u, m) == u \in DOMAIN U /\ m \in DOMAIN M

\* An UPDATE without its WHERE clause.
UpdateScore_all(R, rid, s) == {[r EXCEPT !.score = s] : r \in R}

\* UPDATE ratings SET score = s WHERE id = rid
UpdateScore(R, rid, s) ==
    {IF r.id = rid THEN [r EXCEPT !.score = s] ELSE r : r \in R}

\* ondelete="CASCADE": the rows that go with a deleted movie.
CascadeMovie(rows, m) == {r \in rows : r.movie # m}

\* init_db at startup.  create_test_users: the first NumUsers seed users.
InitUsers ==
    [u \in UserIds |-> IF u <= Len(SeedUsers) THEN SeedUsers[u] ELSE PlainUser]

\* create_test_ratings: every user but the admin rates every movie,
\* score = 7 + (i % 4) for the i-th movie counted from 0.
SeedScore(m) == 7 + ((m - 1) % 4)

SeedRatings ==
    {RatingRow(DrawnId(u, m), m, u, SeedScore(m)) : u \in UserIds \ {1}, m \in MovieIds}

\* create_test_comments: <<user, movie>> of each seeded comment.
SeedCommentPairs == <<<<2, 1>>, <<3, 1>>, <<4, 2>>, <<5, 3>>, <<2, 4>>, <<3, 5>>>>

SeedComments ==
    {CommentRow(NumMovies + NumUsers * NumMovies + k,
                SeedCommentPairs[k][2], SeedCommentPairs[k][1]) :
        k \in {j \in DOMAIN SeedCommentPairs :
                  /\ SeedCommentPairs[j][1] \in UserIds
                  /\ SeedCommentPairs[j][2] \in MovieIds}}

FirstFreeId == NumMovies + NumUsers * NumMovies + Len(SeedCommentPairs) + 1

\* The scores the requests of Spec submit: one seeded score, one other.
SubmittedScores == {SeedScore(1), MaxScore}

(***************************************************************************)
(* Requests in flight.  A request is served by a session of its own; pc is *)
(* the statement it issues next, seen what its last query returned.  A     *)
(* request arrives with its first statement; once it is over only its      *)
(* response is kept.                                                       *)
(***************************************************************************)
Slots == 1..MaxRequests

IdleReq ==
    [kind |-> "none", user |-> 0, id |-> Canonical(NilUuid), score |-> 0,
     pc |-> "idle", seen |-> {}, response |-> NoResponse]

NewReq(kind, u, id, s, pc, seen) ==
    [kind |-> kind, user |-> u, id |-> id, score |-> s,
     pc |-> pc, seen |-> seen, response |-> NoResponse]

DoneReq(kind, resp) == [IdleReq EXCEPT !.kind = kind, !.pc = "done", !.response = resp]

\* Slots are taken in order.
SlotFree(i) ==
    /\ reqs[i].pc = "idle"
    /\ IF i = 1 THEN TRUE ELSE reqs[i - 1].pc # "idle"

\* Request i goes on to its next statement.
Goto(i, req) == reqs' = [reqs EXCEPT ![i] = req]

\* Request i ends with a response.
Finish(i, kind, resp) == reqs' = [reqs EXCEPT ![i] = DoneReq(kind, resp)]

MovieIdStrings == {Canonical(m) : m \in MovieIds} \cup {Canonical(NilUuid), Malformed}

(***************************************************************************)
(* POST /ratings/  create_or_update_rating                                 *)
(***************************************************************************)
\* A schema without the validation of the score.
score_range_off(v) == TRUE

\* score: int = Field(..., ge=1, le=10) and the validator score_range
score_range(v) == MinScore <= v /\ v <= MaxScore

\* The body is validated (422 if the score is refused), then
\* movie = db.query(Movie).filter(Movie.id == rating_in.movie_id).first()
RatingMovieBy(i, u, id, s) ==
    LET b == GuidParam(id)
        kind == "create_or_update_rating"
    IN  /\ SlotFree(i)
        /\ IF ~score_range(s) THEN Finish(i, kind, HTTPException(422, "score"))
           ELSE IF b = Null THEN Finish(i, kind, ServerError(GuidError(id)))
           ELSE IF ~MovieFound(movies, TheValue(b)) THEN Finish(i, kind, NotFound)
           ELSE Goto(i, NewReq(kind, u, id, s, "existing", {}))
        /\ UNCHANGED <<users, movies, ratings, comments, nextId, result>>

RatingMovie(i) ==
    \E u \in UserIds, id \in MovieIdStrings, s \in SubmittedScores :
        RatingMovieBy(i, u, id, s)

\* existing_rating = db.query(Rating).filter(movie_id ==, user_id ==).first()
RatingExisting(i) ==
    LET r == reqs[i]
        m == TheValue(GuidParam(r.id))
        found == {x \in ratings : x.movie = m /\ x.user = r.user}
    IN  /\ r.kind = "create_or_update_rating" /\ r.pc = "existing"
        /\ IF found = {} THEN Goto(i, [r EXCEPT !.pc = "commit", !.seen = {}])
           ELSE \E x \in found : Goto(i, [r EXCEPT !.pc = "commit", !.seen = {x}])
        /\ UNCHANGED <<users, movies, ratings, comments, nextId, result>>

\* The branch taken on existing_rating, up to db.commit(): the UPDATE or
\* the INSERT of the flush and the COMMIT.  seen becomes the id of the row
\* that db.refresh is to read.
RatingCommit(i) ==
    LET r == reqs[i]
        m == TheValue(GuidParam(r.id))
        kind == "create_or_update_rating"
    IN  /\ r.kind = kind /\ r.pc = "commit"
        /\ IF r.seen # {}
           THEN LET x == TheValue(r.seen)
                    present == \E y \in ratings : y.id = x.id
                IN  IF x.score = r.score
                    THEN \* no attribute changed: the flush has no UPDATE
                         /\ Goto(i, [r EXCEPT !.pc = "refresh", !.seen = {x.id}])
                         /\ UNCHANGED <<ratings, nextId>>
                    ELSE IF present
                    THEN /\ ratings' = UpdateScore(ratings, x.id, r.score)
                         /\ Goto(i, [r EXCEPT !.pc = "refresh", !.seen = {x.id}])
                         /\ UNCHANGED nextId
                    ELSE \* UPDATE matched no row
                         /\ Finish(i, kind, ServerError("StaleDataError"))
                         /\ UNCHANGED <<ratings, nextId>>
           ELSE IF ~ForeignKeysHold(users, movies, r.user, m)
                THEN /\ Finish(i, kind, ServerError("IntegrityError: foreign key"))
                     /\ UNCHANGED <<ratings, nextId>>
                ELSE IF ~uq_user_movie_rating(ratings, r.user, m)
                THEN /\ Finish(i, kind, ServerError("IntegrityError: uq_user_movie_rating"))
                     /\ UNCHANGED <<ratings, nextId>>
                ELSE /\ ratings' = ratings \cup {RatingRow(nextId, m, r.user, r.score)}
                     /\ nextId' = nextId + 1
                     /\ Goto(i, [r EXCEPT !.pc = "refresh", !.seen = {nextId}])
        /\ UNCHANGED <<users, movies, comments, result>>

\* db.refresh(obj): a SELECT of the row by its primary key, in the
\* transaction that follows the commit; InvalidRequestError when the row is
\* no longer there.
Refreshed(present) ==
    IF present THEN Success(200) ELSE ServerError("InvalidRequestError")

\* db.refresh(existing_rating) or db.refresh(rating), and the return.
RatingRefresh(i) ==
    LET r == reqs[i]
        kind == "create_or_update_rating"
    IN  /\ r.kind = kind /\ r.pc = "refresh"
        /\ Finish(i, kind, Refreshed(\E y \in ratings : y.id = TheValue(r.seen)))
        /\ UNCHANGED <<users, movies, ratings, comments, nextId, result>>

(***************************************************************************)
(* DELETE /ratings/{rating_id}  delete_rating                              *)
(***************************************************************************)
\* The ids a client has seen, and one that names nothing.
RatingIdStrings == {Canonical(x.id) : x \in ratings} \cup {Canonical(NilUuid)}

\* A handler without the check.
NotPermitted_never(U, owner, u) == FALSE

\* str(rating.user_id) != str(current_user.id) and not current_user.is_admin
NotPermitted(U, owner, u) == owner # u /\ ~U[u].is_admin

\* rating = db.query(Rating).filter(Rating.id == rating_id).first(), the
\* checks; the call is by user u for the identifier id.
DeleteRatingLookupBy(i, u, id) ==
    LET b == GuidParam(id)
        found == {x \in ratings : x.id = TheValue(b)}
        kind == "delete_rating"
    IN  /\ SlotFree(i)
        /\ IF b = Null THEN Finish(i, kind, ServerError(GuidError(id)))
           ELSE IF found = {}
           THEN Finish(i, kind, HTTPException(404, "Rating not found"))
           ELSE \E x \in found :
                    IF NotPermitted(users, x.user, u)
                    THEN Finish(i, kind, HTTPException(403, "Not enough permissions"))
                    ELSE Goto(i, NewReq(kind, u, id, 0, "commit", {x}))
        /\ UNCHANGED <<users, movies, ratings, comments, nextId, result>>

DeleteRatingLookup(i) ==
    \E u \in UserIds, id \in RatingIdStrings : DeleteRatingLookupBy(i, u, id)

\* db.delete(rating); db.commit(): a DELETE that matches no row only warns.
DeleteRatingCommit(i) ==
    LET r == reqs[i]
        x == TheValue(r.seen)
        gone == {y \in ratings : y.id = x.id}
        kind == "delete_rating"
    IN  /\ r.kind = kind /\ r.pc = "commit"
        /\ ratings' = ratings \ gone
        /\ Finish(i, kind, Success(204))
        /\ UNCHANGED <<users, movies, comments, nextId, result>>

(***************************************************************************)
(* POST /movies/  create_movie                                             *)
(***************************************************************************)
\* The admin check, then movie = Movie(...); db.add(movie); db.commit(), for
\* a call by user u.
CreateMovieBy(i, u, title) ==
    LET kind == "create_movie"
    IN  /\ SlotFree(i)
        /\ IF ~users[u].is_admin
           THEN /\ Finish(i, kind, HTTPException(403, "Not enough permissions"))
                /\ UNCHANGED <<movies, nextId>>
           ELSE /\ movies' = (nextId :> MovieRow(title)) @@ movies
                /\ nextId' = nextId + 1
                /\ Goto(i, NewReq(kind, u, Canonical(NilUuid), 0, "refresh",
                                  {nextId}))
        /\ UNCHANGED <<users, ratings, comments, result>>

CreateMovie(i) == \E u \in UserIds, title \in MovieTitles : CreateMovieBy(i, u, title)

\* db.refresh(movie), and the return.
CreateMovieRefresh(i) ==
    LET r == reqs[i]
        kind == "create_movie"
    IN  /\ r.kind = kind /\ r.pc = "refresh"
        /\ Finish(i, kind, Refreshed(MovieFound(movies, TheValue(r.seen))))
        /\ UNCHANGED <<users, movies, ratings, comments, nextId, result>>

(***************************************************************************)
(* PUT /movies/{movie_id}  update_movie                                    *)
(***************************************************************************)
\* An update that looks the movie up before it checks the caller.
UpdateMovieLookupBy_late(i, u, id, title) ==
    LET b == UUIDParse(id)
        m == TheValue(b)
        kind == "update_movie"
    IN  /\ SlotFree(i)
        /\ IF b = Null
           THEN Finish(i, kind, HTTPException(400, "Invalid movie ID format"))
           ELSE IF ~MovieFound(movies, m) THEN Finish(i, kind, NotFound)
           ELSE IF ~users[u].is_admin
           THEN Finish(i, kind, HTTPException(403, "Not enough permissions"))
           ELSE Goto(i, ("title" :> title)
                        @@ NewReq(kind, u, id, 0, "commit", {[id |-> m] @@ movies[m]}))
        /\ UNCHANGED <<users, movies, ratings, comments, nextId, result>>

\* The admin check, uuid.UUID(movie_id) and the query for the movie; the
\* call is by user u, with the title of movie_in.
UpdateMovieLookupBy(i, u, id, title) ==
    LET b == UUIDParse(id)
        m == TheValue(b)
        kind == "update_movie"
    IN  /\ SlotFree(i)
        /\ IF ~users[u].is_admin
           THEN Finish(i, kind, HTTPException(403, "Not enough permissions"))
           ELSE IF b = Null
           THEN Finish(i, kind, HTTPException(400, "Invalid movie ID format"))
           ELSE IF ~MovieFound(movies, m) THEN Finish(i, kind, NotFound)
           ELSE Goto(i, ("title" :> title)
                        @@ NewReq(kind, u, id, 0, "commit", {[id |-> m] @@ movies[m]}))
        /\ UNCHANGED <<users, movies, ratings, comments, nextId, result>>

\* The identifiers a client can name: those of MovieIdStrings and the id
\* of every movie of the catalogue, the created ones among them.
CatalogueIdStrings == MovieIdStrings \cup {Canonical(m) : m \in DOMAIN movies}

UpdateMovieLookup(i) ==
    \E u \in UserIds, id \in CatalogueIdStrings, title \in MovieTitles :
        UpdateMovieLookupBy(i, u, id, title)

\* setattr(movie, field, value); db.add(movie); db.commit()
UpdateMovieCommit(i) ==
    LET r == reqs[i]
        x == TheValue(r.seen)
        present == MovieFound(movies, x.id)
        kind == "update_movie"
    IN  /\ r.kind = kind /\ r.pc = "commit"
        /\ IF x.title = r.title
           THEN \* no attribute changed: the flush has no UPDATE
                /\ Goto(i, [r EXCEPT !.pc = "refresh", !.seen = {x.id}])
                /\ UNCHANGED movies
           ELSE IF present
           THEN /\ movies' = [movies EXCEPT ![x.id].title = r.title]
                /\ Goto(i, [r EXCEPT !.pc = "refresh", !.seen = {x.id}])
           ELSE \* UPDATE matched no row
                /\ Finish(i, kind, ServerError("StaleDataError"))
                /\ UNCHANGED movies
        /\ UNCHANGED <<users, ratings, comments, nextId, result>>

\* db.refresh(movie), and the return.
UpdateMovieRefresh(i) ==
    LET r == reqs[i]
        kind == "update_movie"
    IN  /\ r.kind = kind /\ r.pc = "refresh"
        /\ Finish(i, kind, Refreshed(MovieFound(movies, TheValue(r.seen))))
        /\ UNCHANGED <<users, movies, ratings, comments, nextId, result>>

(***************************************************************************)
(* DELETE /movies/{movie_id}  delete_movie                                 *)
(***************************************************************************)
\* The admin check, uuid.UUID(movie_id) and the query for the movie.
DeleteMovieLookupBy(i, u, id) ==
    LET b == UUIDParse(id)
        kind == "delete_movie"
    IN  /\ SlotFree(i)
        /\ IF ~users[u].is_admin
           THEN Finish(i, kind, HTTPException(403, "Not enough permissions"))
           ELSE IF b = Null
           THEN Finish(i, kind, HTTPException(400, "Invalid movie ID format"))
           ELSE IF ~MovieFound(movies, TheValue(b)) THEN Finish(i, kind, NotFound)
           ELSE Goto(i, ("ratings" :> {}) @@ ("comments" :> {})
                        @@ NewReq(kind, u, id, 0, "ratings", b))
        /\ UNCHANGED <<users, movies, ratings, comments, nextId, result>>

DeleteMovieLookup(i) ==
    \E u \in UserIds, id \in CatalogueIdStrings : DeleteMovieLookupBy(i, u, id)

\* db.delete(movie); db.commit().  The backrefs Movie.ratings and
\* Movie.comments carry no delete cascade and no passive_deletes, so the
\* flush loads the rows of each, detaches every row it loaded by an UPDATE
\* that sets its movie_id to NULL, and then deletes the movie.  The rows of
\* Movie.ratings are loaded before those of Movie.comments; the UPDATEs are
\* issued mapper by mapper in the order of the unit of work, which sorts
\* app.models.comment.Comment before app.models.rating.Rating.
\* The ids of the rows of movie m: what the SELECT of a backref returns.
ChildrenToDetach(rows, m) == {x.id : x \in {y \in rows : y.movie = m}}

\* The flush loads Movie.ratings.
DeleteMovieRatings(i) ==
    LET r == reqs[i]
        m == TheValue(r.seen)
    IN  /\ r.kind = "delete_movie" /\ r.pc = "ratings"
        /\ Goto(i, [r EXCEPT !.pc = "comments",
                             !.ratings = ChildrenToDetach(ratings, m)])
        /\ UNCHANGED <<users, movies, ratings, comments, nextId, result>>

\* The flush loads Movie.comments.
DeleteMovieComments(i) ==
    LET r == reqs[i]
        m == TheValue(r.seen)
        loaded == ChildrenToDetach(comments, m)
    IN  /\ r.kind = "delete_movie" /\ r.pc = "comments"
        /\ Goto(i, [r EXCEPT !.pc = IF r.ratings \cup loaded = {} THEN "delete"
                                    ELSE "flush",
                             !.comments = loaded])
        /\ UNCHANGED <<users, movies, ratings, comments, nextId, result>>

\* UPDATE ... SET movie_id = NULL WHERE id = ..., one row at a time, for the
\* loaded rows of a table that holds the rows `there`: a row that is still
\* there violates NOT NULL, a row that is gone makes the UPDATE match no row.
\* The error is that of the row written first.
DetachOutcomes(loaded, there) ==
    {IF x \in there THEN ServerError("IntegrityError: not null")
                    ELSE ServerError("StaleDataError") : x \in loaded}

\* The UPDATEs of the loaded rows, the comments before the ratings.
DeleteMovieFlush(i) ==
    LET r == reqs[i]
        kind == "delete_movie"
        outcomes == IF r.comments # {}
                    THEN DetachOutcomes(r.comments, {y.id : y \in comments})
                    ELSE DetachOutcomes(r.ratings, {y.id : y \in ratings})
    IN  /\ r.kind = kind /\ r.pc = "flush"
        /\ \E resp \in outcomes : Finish(i, kind, resp)
        /\ UNCHANGED <<users, movies, ratings, comments, nextId, result>>

\* No row was loaded: DELETE FROM movies and COMMIT, the database cascading
\* to the rows that arrived since the flush loaded the children.
DeleteMovieDelete(i) ==
    LET r == reqs[i]
        m == TheValue(r.seen)
        kind == "delete_movie"
    IN  /\ r.kind = kind /\ r.pc = "delete"
        /\ movies' = [k \in DOMAIN movies \ {m} |-> movies[k]]
        /\ ratings' = CascadeMovie(ratings, m)
        /\ comments' = CascadeMovie(comments, m)
        /\ Finish(i, kind, Success(204))
        /\ UNCHANGED <<users, nextId, result>>

(***************************************************************************)
(* POST /comments/  create_comment                                         *)
(***************************************************************************)
\* movie = db.query(Movie).filter(Movie.id == comment_in.movie_id).first()
CommentMovieBy(i, u, id) ==
    LET b == GuidParam(id)
        kind == "create_comment"
    IN  /\ SlotFree(i)
        /\ IF b = Null THEN Finish(i, kind, ServerError(GuidError(id)))
           ELSE IF ~MovieFound(movies, TheValue(b)) THEN Finish(i, kind, NotFound)
           ELSE Goto(i, NewReq(kind, u, id, 0, "commit", b))
        /\ UNCHANGED <<users, movies, ratings, comments, nextId, result>>

CommentMovie(i) ==
    \E u \in UserIds, id \in MovieIdStrings : CommentMovieBy(i, u, id)

\* db.add(comment); db.commit(): the INSERT and the COMMIT.
CommentCommit(i) ==
    LET r == reqs[i]
        m == TheValue(r.seen)
        kind == "create_comment"
    IN  /\ r.kind = kind /\ r.pc = "commit"
        /\ IF ~ForeignKeysHold(users, movies, r.user, m)
           THEN /\ Finish(i, kind, ServerError("IntegrityError: foreign key"))
                /\ UNCHANGED <<comments, nextId>>
           ELSE /\ comments' = comments \cup {CommentRow(nextId, m, r.user)}
                /\ nextId' = nextId + 1
                /\ Goto(i, [r EXCEPT !.pc = "refresh", !.seen = {nextId}])
        /\ UNCHANGED <<users, movies, ratings, result>>

\* db.refresh(comment), and the return.
CommentRefresh(i) ==
    LET r == reqs[i]
        kind == "create_comment"
    IN  /\ r.kind = kind /\ r.pc = "refresh"
        /\ Finish(i, kind, Refreshed(\E y \in comments : y.id = TheValue(r.seen)))
        /\ UNCHANGED <<users, movies, ratings, comments, nextId, result>>

(***************************************************************************)
(* PUT /comments/{comment_id}  update_comment                              *)
(***************************************************************************)
\* The ids a client has seen, one that names nothing, one that is no UUID.
CommentIdStrings ==
    {Canonical(x.id) : x \in comments} \cup {Canonical(NilUuid), Malformed}

\* comment = db.query(Comment).filter(Comment.id == comment_id).first() and
\* the checks of update_comment and delete_comment, for a call by user u.
CommentLookupBy(i, kind, u, id, text) ==
    LET b == GuidParam(id)
        found == {x \in comments : x.id = TheValue(b)}
    IN  /\ SlotFree(i)
        /\ IF b = Null THEN Finish(i, kind, ServerError(GuidError(id)))
           ELSE IF found = {}
           THEN Finish(i, kind, HTTPException(404, "Comment not found"))
           ELSE \E x \in found :
                    IF NotPermitted(users, x.user, u)
                    THEN Finish(i, kind, HTTPException(403, "Not enough permissions"))
                    ELSE Goto(i, ("text" :> text) @@ NewReq(kind, u, id, 0, "commit", {x}))
        /\ UNCHANGED <<users, movies, ratings, comments, nextId, result>>

UpdateCommentLookupBy(i, u, id, text) ==
    CommentLookupBy(i, "update_comment", u, id, text)

UpdateCommentLookup(i) ==
    \E u \in UserIds, id \in CommentIdStrings, text \in CommentTexts :
        UpdateCommentLookupBy(i, u, id, text)

\* An UPDATE without its WHERE clause.
UpdateText_all(C, cid, text) == {[c EXCEPT !.text = text] : c \in C}

\* UPDATE comments SET text = ... WHERE id = cid
UpdateText(C, cid, text) ==
    {IF c.id = cid THEN [c EXCEPT !.text = text] ELSE c : c \in C}

\* comment.text = comment_in.text; db.add(comment); db.commit()
UpdateCommentCommit(i) ==
    LET r == reqs[i]
        x == TheValue(r.seen)
        present == \E y \in comments : y.id = x.id
        kind == "update_comment"
    IN  /\ r.kind = kind /\ r.pc = "commit"
        /\ IF x.text = r.text
           THEN \* no attribute changed: the flush has no UPDATE
                /\ Goto(i, [r EXCEPT !.pc = "refresh", !.seen = {x.id}])
                /\ UNCHANGED comments
           ELSE IF present
           THEN /\ comments' = UpdateText(comments, x.id, r.text)
                /\ Goto(i, [r EXCEPT !.pc = "refresh", !.seen = {x.id}])
           ELSE \* UPDATE matched no row
                /\ Finish(i, kind, ServerError("StaleDataError"))
                /\ UNCHANGED comments
        /\ UNCHANGED <<users, movies, ratings, nextId, result>>

\* db.refresh(comment), and the return.
UpdateCommentRefresh(i) ==
    LET r == reqs[i]
        kind == "update_comment"
    IN  /\ r.kind = kind /\ r.pc = "refresh"
        /\ Finish(i, kind, Refreshed(\E y \in comments : y.id = TheValue(r.seen)))
        /\ UNCHANGED <<users, movies, ratings, comments, nextId, result>>

(***************************************************************************)
(* DELETE /comments/{comment_id}  delete_comment                           *)
(***************************************************************************)
DeleteCommentLookupBy(i, u, id) ==
    CommentLookupBy(i, "delete_comment", u, id, PostedText)

DeleteCommentLookup(i) ==
    \E u \in UserIds, id \in CommentIdStrings : DeleteCommentLookupBy(i, u, id)

\* db.delete(comment); db.commit(): a DELETE that matches no row only warns.
DeleteCommentCommit(i) ==
    LET r == reqs[i]
        x == TheValue(r.seen)
        kind == "delete_comment"
    IN  /\ r.kind = kind /\ r.pc = "commit"
        /\ comments' = {y \in comments : y.id # x.id}
        /\ Finish(i, kind, Success(204))
        /\ UNCHANGED <<users, movies, ratings, nextId, result>>

\* The last call of a statistics endpoint and what it returned.
NoCall == [call |-> "none", movie_id |-> Canonical(NilUuid), response |-> NoResponse]

(***************************************************************************)
(* Spec: the write handlers, interleaved statement by statement.           *)
(***************************************************************************)
\* The store after startup: seeded, or (init_db failed after the movies,
\* which main.py tolerates) with users and movies only.
Init ==
    /\ users = InitUsers
    /\ movies = SeedMovies
    /\ \/ ratings = SeedRatings /\ comments = SeedComments
       \/ ratings = {} /\ comments = {}
    /\ nextId = FirstFreeId
    /\ reqs = [i \in Slots |-> IdleReq]
    /\ result = NoCall

Next ==
    \E i \in Slots :
        \/ RatingMovie(i)
        \/ RatingExisting(i)
        \/ RatingCommit(i)
        \/ RatingRefresh(i)
        \/ DeleteRatingLookup(i)
        \/ DeleteRatingCommit(i)
        \/ DeleteMovieLookup(i)
        \/ DeleteMovieRatings(i)
        \/ DeleteMovieComments(i)
        \/ DeleteMovieFlush(i)
        \/ DeleteMovieDelete(i)
        \/ CommentMovie(i)
        \/ CommentCommit(i)
        \/ CommentRefresh(i)

Spec == Init /\ [][Next]_vars

(***************************************************************************)
(* SpecRatings: create_or_update_rating and delete_rating on their own,    *)
(* interleaved statement by statement.                                     *)
(***************************************************************************)
NextRatings ==
    \E i \in Slots :
        \/ RatingMovie(i)
        \/ RatingExisting(i)
        \/ RatingCommit(i)
        \/ RatingRefresh(i)
        \/ DeleteRatingLookup(i)
        \/ DeleteRatingCommit(i)

SpecRatings == Init /\ [][NextRatings]_vars

(***************************************************************************)
(* SpecStats: the statistics endpoints on stores drawn from bounded sets.  *)
(* Every value of every demographic field that the bucketing distinguishes *)
(* occurs in some profile: the ages on both sides of each boundary, the    *)
(* listed genders and continents, other spellings, the empty string, NULL. *)
(***************************************************************************)
AgesTried ==
    <<Some(17), Some(18), Some(24), Some(25), Some(34), Some(35),
      Some(44), Some(45), Some(54), Some(55), Null>>
GendersTried ==
    <<Some("male"), Some("female"), Some("other"), Some("Male"), Some(""), Null>>
ContinentsTried ==
    <<Some("africa"), Some("asia"), Some("europe"), Some("north_america"),
      Some("south_america"), Some("australia"), Some("antarctica"), Some("EU"), Null>>
CountriesTried == <<Some("USA"), Some("UK"), Some(""), Null>>

Cycle(seq, k) == seq[((k - 1) % Len(seq)) + 1]

\* Profile k; the last one is a user who gave no demographic field at all.
Profile(k) ==
    IF k > Len(AgesTried) THEN PlainUser
    ELSE UserRow(AgesTried[k], Cycle(GendersTried, k), Cycle(CountriesTried, k),
                 Cycle(ContinentsTried, k), FALSE)

ProfileIds == 1..(Len(AgesTried) + 1)

\* What one user has rated: nothing, the first movie, or every movie (the
\* movies are interchangeable for the statistics).
RatedSets == {{}, {1}, MovieIds}

StatsIdStrings ==
    {Canonical(m) : m \in MovieIds} \cup {Upper(1), Canonical(NilUuid), Malformed}

\* Users are interchangeable for the statistics: profiles are drawn in order.
InitStats ==
    /\ \E p \in [UserIds -> ProfileIds] :
          /\ \A u \in UserIds : IF u = 1 THEN TRUE ELSE p[u - 1] <= p[u]
          /\ users = [u \in UserIds |-> Profile(p[u])]
    /\ movies = SeedMovies
    /\ \E rated \in [UserIds -> RatedSets], s \in [UserIds -> ScoresTried] :
          ratings = UNION {{RatingRow(DrawnId(u, m), m, u, s[u]) : m \in rated[u]} :
                            u \in UserIds}
    /\ comments = {}
    /\ nextId = FirstFreeId
    /\ reqs = [i \in Slots |-> IdleReq]
    /\ result = NoCall

\* A call that is being served: the statement it is at and the rows its
\* queries have returned.
StatsCall(call, id, pc, seen) ==
    [call |-> call, movie_id |-> id, response |-> NoResponse,
     pc |-> pc, seen |-> seen]

\* A call that has returned or raised.
StatsReturn(call, id, resp) == [call |-> call, movie_id |-> id, response |-> resp]

\* GET /statistics/movie/{movie_id}:
\* movie = db.query(Movie).filter(Movie.id == movie_id).first()
StatsMovie ==
    \E id \in StatsIdStrings :
        LET b == GuidParam(id)
            call == "get_movie_statistics"
        IN  /\ result = NoCall
            /\ result' =
                  IF b = Null THEN StatsReturn(call, id, ServerError(GuidError(id)))
                  ELSE IF ~MovieFound(movies, TheValue(b))
                  THEN StatsReturn(call, id, NotFound)
                  ELSE StatsCall(call, id, "basic_stats", <<>>)
            /\ UNCHANGED <<users, movies, ratings, comments, nextId, reqs>>

\* The call, at statement pc, runs a query and keeps its row under name.
StatsQuery(pc, name, row, next) ==
    /\ result.call = "get_movie_statistics"
    /\ result.response = NoResponse
    /\ result.pc = pc
    /\ result' = [result EXCEPT !.pc = next, !.seen = (name :> row) @@ result.seen]
    /\ UNCHANGED <<users, movies, ratings, comments, nextId, reqs>>

\* The movie the call asks about.
StatsMovieOf == TheValue(GuidParam(result.movie_id))

StatsBasic ==
    StatsQuery("basic_stats", "basic_stats",
               BasicStats(ratings, StatsMovieOf), "age_stats")

StatsAge ==
    StatsQuery("age_stats", "age_stats",
               AgeStats(users, ratings, StatsMovieOf), "gender_stats")

StatsGender ==
    StatsQuery("gender_stats", "gender_stats",
               GenderStats(users, ratings, StatsMovieOf), "continent_stats")

StatsContinent ==
    StatsQuery("continent_stats", "continent_stats",
               ContinentStats(users, ratings, StatsMovieOf), "country_stats")

\* What the handler returns, from the rows it has and those of the country
\* query.
StatsResult(id, seen, country_stats) ==
    [outcome |-> "OK", status |-> 200,
     movie_id |-> id,
     average_rating |-> seen["basic_stats"].average_rating,
     total_ratings |-> seen["basic_stats"].total_ratings,
     age_statistics |-> seen["age_stats"],
     gender_statistics |-> seen["gender_stats"],
     continent_statistics |-> seen["continent_stats"],
     country_statistics |-> country_stats]

\* A last statement that writes: it drops the ratings the call has counted.
StatsCountry_writing ==
    /\ result.call = "get_movie_statistics"
    /\ result.response = NoResponse
    /\ result.pc = "country_stats"
    /\ result' = StatsReturn(result.call, result.movie_id,
                             StatsResult(result.movie_id, result.seen,
                                         CountryStats(users, ratings, StatsMovieOf)))
    /\ ratings' = {x \in ratings : x.movie # StatsMovieOf}
    /\ UNCHANGED <<users, movies, comments, nextId, reqs>>

\* The country query, the loop over its rows and the return.
StatsCountry ==
    /\ result.call = "get_movie_statistics"
    /\ result.response = NoResponse
    /\ result.pc = "country_stats"
    /\ result' = StatsReturn(result.call, result.movie_id,
                             StatsResult(result.movie_id, result.seen,
                                         CountryStats(users, ratings, StatsMovieOf)))
    /\ UNCHANGED <<users, movies, ratings, comments, nextId, reqs>>

\* A handler that does not look the movie up.
RatingStatsMovie_nocheck ==
    \E id \in StatsIdStrings :
        LET b == GuidParam(id)
            call == "get_movie_rating_stats"
        IN  /\ result = NoCall
            /\ result' =
                  IF b = Null THEN StatsReturn(call, id, ServerError(GuidError(id)))
                  ELSE StatsCall(call, id, "stats", <<>>)
            /\ UNCHANGED <<users, movies, ratings, comments, nextId, reqs>>

\* GET /ratings/movie/{movie_id}/stats:
\* movie = db.query(Movie).filter(Movie.id == movie_id).first()
RatingStatsMovie ==
    \E id \in StatsIdStrings :
        LET b == GuidParam(id)
            call == "get_movie_rating_stats"
        IN  /\ result = NoCall
            /\ result' =
                  IF b = Null THEN StatsReturn(call, id, ServerError(GuidError(id)))
                  ELSE IF ~MovieFound(movies, TheValue(b))
                  THEN StatsReturn(call, id, NotFound)
                  ELSE StatsCall(call, id, "stats", <<>>)
            /\ UNCHANGED <<users, movies, ratings, comments, nextId, reqs>>

\* stats = db.query(func.avg(...), func.count(...)).filter(...).first(), and
\* the return.
RatingStatsQuery ==
    LET stats == RatingStats(ratings, StatsMovieOf)
    IN  /\ result.call = "get_movie_rating_stats"
        /\ result.response = NoResponse
        /\ result.pc = "stats"
        /\ result' = StatsReturn(result.call, result.movie_id,
                                 [outcome |-> "OK", status |-> 200,
                                  movie_id |-> result.movie_id,
                                  average_score |-> stats.average_score,
                                  total_ratings |-> stats.total_ratings])
        /\ UNCHANGED <<users, movies, ratings, comments, nextId, reqs>>

\* The response is delivered; the client may call again.
Deliver ==
    /\ result # NoCall
    /\ result.response # NoResponse
    /\ result' = NoCall
    /\ UNCHANGED <<users, movies, ratings, comments, nextId, reqs>>

NextStats ==
    \/ StatsMovie
    \/ StatsBasic
    \/ StatsAge
    \/ StatsGender
    \/ StatsContinent
    \/ StatsCountry
    \/ RatingStatsMovie
    \/ RatingStatsQuery
    \/ Deliver

SpecStats == InitStats /\ [][NextStats]_vars

(***************************************************************************)
(* SpecAgain: a client calls get_movie_statistics, is given the answer,    *)
(* and calls again, on the stores of SpecStats.  No request writes.  The   *)
(* answer the client was given last is kept as a request that is done,     *)
(* with the identifier it asked about.                                     *)
(***************************************************************************)
\* The response of get_movie_statistics is delivered and kept.
DeliverKept ==
    /\ result.call = "get_movie_statistics"
    /\ result.response # NoResponse
    /\ result' = NoCall
    /\ reqs' = [reqs EXCEPT
                   ![1] = ("id" :> result.movie_id)
                              @@ DoneReq(result.call, result.response)]
    /\ UNCHANGED <<users, movies, ratings, comments, nextId>>

NextAgain ==
    \/ StatsMovie
    \/ StatsBasic
    \/ StatsAge
    \/ StatsGender
    \/ StatsContinent
    \/ StatsCountry
    \/ DeliverKept

SpecAgain == InitStats /\ [][NextAgain]_vars

(***************************************************************************)
(* SpecReads: a call of get_movie_statistics next to the handlers that     *)
(* write ratings.  The session runs at READ COMMITTED, so each of the six  *)
(* queries of the call sees what is committed when it is issued.           *)
(***************************************************************************)
NextReads ==
    \/ StatsMovie
    \/ StatsBasic
    \/ StatsAge
    \/ StatsGender
    \/ StatsContinent
    \/ StatsCountry
    \/ \E i \in Slots :
          \/ RatingMovie(i)
          \/ RatingExisting(i)
          \/ RatingCommit(i)
          \/ RatingRefresh(i)
          \/ DeleteRatingLookup(i)
          \/ DeleteRatingCommit(i)

SpecReads == Init /\ [][NextReads]_vars

(***************************************************************************)
(* SpecDb: the dependency get_db around a handler.  A request first runs   *)
(* db = SessionLocal(), which returns a session or raises; the handler     *)
(* then runs at the yield and returns or raises; the finally clause closes *)
(* the session.  session is "none", "open" or "closed".                    *)
(***************************************************************************)
DbIdle == ("session" :> "none") @@ IdleReq

\* The handlers that take db: Session = Depends(get_db).
DbHandlers == {"get_movie_statistics", "get_movie_rating_stats"}

\* How a handler can end: it returns, raises HTTPException, or fails.
HandlerOutcomes == {Success(200), NotFound, ServerError(GuidError(Malformed))}

\* db = SessionLocal(), outside the try: an error leaves get_db at once.
GetDbOpen(i) ==
    \E kind \in DbHandlers, opened \in BOOLEAN :
        /\ SlotFree(i)
        /\ reqs' = [reqs EXCEPT ![i] =
              IF opened
              THEN [DbIdle EXCEPT !.kind = kind, !.pc = "yield", !.session = "open"]
              ELSE [DbIdle EXCEPT !.kind = kind, !.pc = "done",
                                  !.response = ServerError("SessionLocal")]]
        /\ UNCHANGED <<users, movies, ratings, comments, nextId, result>>

\* yield db: the handler runs and returns, or its exception is thrown in.
GetDbYield(i) ==
    \E resp \in HandlerOutcomes :
        /\ reqs[i].pc = "yield"
        /\ reqs' = [reqs EXCEPT ![i].pc = "finally", ![i].response = resp]
        /\ UNCHANGED <<users, movies, ratings, comments, nextId, result>>

\* A dependency that closes only after the handler returned.
GetDbFinally_onreturn(i) ==
    /\ reqs[i].pc = "finally"
    /\ reqs' = [reqs EXCEPT ![i].pc = "done",
                            ![i].session = IF reqs[i].response.outcome = "OK"
                                           THEN "closed" ELSE "open"]
    /\ UNCHANGED <<users, movies, ratings, comments, nextId, result>>

\* finally: db.close()
GetDbFinally(i) ==
    /\ reqs[i].pc = "finally"
    /\ reqs' = [reqs EXCEPT ![i].pc = "done", ![i].session = "closed"]
    /\ UNCHANGED <<users, movies, ratings, comments, nextId, result>>

InitDb ==
    /\ users = InitUsers
    /\ movies = SeedMovies
    /\ \/ ratings = SeedRatings /\ comments = SeedComments
       \/ ratings = {} /\ comments = {}
    /\ nextId = FirstFreeId
    /\ reqs = [i \in Slots |-> DbIdle]
    /\ result = NoCall

NextDb == \E i \in Slots : GetDbOpen(i) \/ GetDbYield(i) \/ GetDbFinally(i)

SpecDb == InitDb /\ [][NextDb]_vars

(***************************************************************************)
(* SpecOwner: the handlers that only the author or an admin may use, on    *)
(* the seeded store and on the seeded store after the admin has rated and  *)
(* commented the first movie (through create_or_update_rating and          *)
(* create_comment), so that a row exists whose author is not the caller    *)
(* for a caller who is not an admin.                                       *)
(***************************************************************************)
AdminRating == RatingRow(DrawnId(1, 1), 1, 1, MaxScore)
AdminComment == CommentRow(FirstFreeId, 1, 1)

InitOwner ==
    /\ users = InitUsers
    /\ movies = SeedMovies
    /\ \/ ratings = SeedRatings /\ comments = SeedComments /\ nextId = FirstFreeId
       \/ /\ ratings = SeedRatings \cup {AdminRating}
          /\ comments = SeedComments \cup {AdminComment}
          /\ nextId = FirstFreeId + 1
    /\ reqs = [i \in Slots |-> IdleReq]
    /\ result = NoCall

NextOwner ==
    \E i \in Slots :
        \/ DeleteRatingLookup(i)
        \/ DeleteRatingCommit(i)
        \/ UpdateCommentLookup(i)
        \/ UpdateCommentCommit(i)
        \/ UpdateCommentRefresh(i)
        \/ DeleteCommentLookup(i)
        \/ DeleteCommentCommit(i)

SpecOwner == InitOwner /\ [][NextOwner]_vars

(***************************************************************************)
(* SpecAdmin: the handlers of the movie catalogue, which only an admin may *)
(* use, on the seeded store and on the store with users and movies only.   *)
(***************************************************************************)
NextAdmin ==
    \E i \in Slots :
        \/ CreateMovie(i)
        \/ CreateMovieRefresh(i)
        \/ UpdateMovieLookup(i)
        \/ UpdateMovieCommit(i)
        \/ UpdateMovieRefresh(i)
        \/ DeleteMovieLookup(i)
        \/ DeleteMovieRatings(i)
        \/ DeleteMovieComments(i)
        \/ DeleteMovieFlush(i)
        \/ DeleteMovieDelete(i)

SpecAdmin == Init /\ [][NextAdmin]_vars

(***************************************************************************)
(* SpecUsers: the accounts.  register, update_user and login on the users  *)
(* that init_db seeds, statement by statement.  users.username and         *)
(* users.email are UNIQUE columns (models/user.py).  Password hashing and  *)
(* token issuance (app.core.security) are an opaque credential service:    *)
(* a hash is kept apart from the password it was made from, and a token    *)
(* carries its subject.                                                    *)
(***************************************************************************)
get_password_hash(password) == <<"hash", password>>

verify_password(plain_password, hashed_password) ==
    hashed_password = get_password_hash(plain_password)

create_access_token(subject) ==
    [outcome |-> "OK", status |-> 200, detail |-> "",
     access_token |-> [sub |-> subject], token_type |-> "bearer"]

\* A row of users: the account columns and the names next to the
\* demographic columns.
AccountRow(username, email, password, first_name, last_name, row) ==
    ("username" :> username) @@ ("email" :> email)
        @@ ("password" :> get_password_hash(password))
        @@ ("first_name" :> first_name) @@ ("last_name" :> last_name) @@ row

\* create_test_users: <<username, email, password, first_name, last_name>>
\* of the seeded users.
SeedAccounts ==
    <<<<"admin", "admin@example.com", "admin123", "Admin", "User">>,
      <<"user1", "user1@example.com", "user123", "John", "Doe">>,
      <<"user2", "user2@example.com", "user123", "Jane", "Smith">>,
      <<"user3", "user3@example.com", "user123", "Alice", "Johnson">>,
      <<"user4", "user4@example.com", "user123", "Bob", "Brown">>>>

InitAccounts ==
    [u \in UserIds |->
        AccountRow(SeedAccounts[u][1], SeedAccounts[u][2], SeedAccounts[u][3],
                   Some(SeedAccounts[u][4]), Some(SeedAccounts[u][5]),
                   InitUsers[u])]

\* Columns without the constraints.
users_unique_off(U, id, row) == TRUE

\* username = Column(unique=True), email = Column(unique=True): may row be
\* written as the row of user id?
users_unique(U, id, row) ==
    \A v \in DOMAIN U \ {id} :
        U[v].username # row.username /\ U[v].email # row.email

\* id = uuid.uuid4()
NewUserId(U) == Cardinality(DOMAIN U) + 1

\* The bodies of POST /auth/register: a new account, a username that is
\* taken, an email that is taken, a username that is another user's email,
\* and a new account with its names and demographic fields.
RegisterForms ==
    {[username |-> "user9", email |-> "user9@example.com", password |-> "secret99"],
     [username |-> "admin", email |-> "user8@example.com", password |-> "secret99"],
     [username |-> "user8", email |-> "admin@example.com", password |-> "secret99"],
     [username |-> "admin@example.com", email |-> "user9@example.com",
      password |-> "secret99"],
     [username |-> "admin@example.com", email |-> "user8@example.com",
      password |-> "admin123"],
     [username |-> "testuser", email |-> "testuser@example.com",
      password |-> "testpassword",
      first_name |-> Some("Test"), last_name |-> Some("User"),
      age |-> Some(30), gender |-> Some("male"),
      country |-> Some("TestCountry"), continent |-> Some("TestContinent")]}

\* user = db.query(User).filter(User.email == user_in.email).first()
RegisterEmailBy(i, form) ==
    LET kind == "register"
    IN  /\ SlotFree(i)
        /\ IF \E v \in DOMAIN users : users[v].email = form.email
           THEN Finish(i, kind,
                       HTTPException(400, "A user with this email already exists"))
           ELSE Goto(i, NewReq(kind, 0, Canonical(NilUuid), 0, "username", {form}))
        /\ UNCHANGED <<users, movies, ratings, comments, nextId, result>>

RegisterEmail(i) == \E form \in RegisterForms : RegisterEmailBy(i, form)

\* user = db.query(User).filter(User.username == user_in.username).first()
RegisterUsername(i) ==
    LET r == reqs[i]
        form == TheValue(r.seen)
    IN  /\ r.kind = "register" /\ r.pc = "username"
        /\ IF \E v \in DOMAIN users : users[v].username = form.username
           THEN Finish(i, r.kind,
                       HTTPException(400, "A user with this username already exists"))
           ELSE Goto(i, [r EXCEPT !.pc = "commit"])
        /\ UNCHANGED <<users, movies, ratings, comments, nextId, result>>

\* db_user = User(...); db.add(db_user); db.commit()
RegisterCommit(i) ==
    LET r == reqs[i]
        form == TheValue(r.seen)
        id == NewUserId(users)
        \* UserBase declares these fields Optional[...] = None
        field(f) == IF f \in DOMAIN form THEN form[f] ELSE Null
        row == AccountRow(form.username, form.email, form.password,
                          field("first_name"), field("last_name"),
                          UserRow(field("age"), field("gender"),
                                  field("country"), field("continent"), FALSE))
    IN  /\ r.kind = "register" /\ r.pc = "commit"
        /\ IF ~users_unique(users, id, row)
           THEN /\ Finish(i, r.kind, ServerError("IntegrityError: users"))
                /\ UNCHANGED users
           ELSE /\ users' = (id :> row) @@ users
                /\ Goto(i, [r EXCEPT !.pc = "refresh", !.user = id])
        /\ UNCHANGED <<movies, ratings, comments, nextId, result>>

\* db.refresh(db_user)
RegisterRefresh(i) ==
    LET r == reqs[i]
    IN  /\ r.kind = "register" /\ r.pc = "refresh"
        /\ Finish(i, r.kind, Refreshed(r.user \in DOMAIN users))
        /\ UNCHANGED <<users, movies, ratings, comments, nextId, result>>

\* class UserUpdate: the fields a body of PUT /users/me can set.
UserUpdateFields ==
    {"username", "first_name", "last_name", "age", "gender", "country", "continent"}

\* The bodies of PUT /users/me: a username, the empty username, names and
\* demographic fields; two of them carry fields UserUpdate does not declare
\* (the password field holds a string in the form of a stored hash).
UpdateBodies ==
    {("username" :> "admin"),
     ("username" :> ""),
     ("username" :> "user9") @@ ("email" :> "admin@example.com"),
     ("first_name" :> Some("Updated First")) @@ ("last_name" :> Some("Updated Last"))
        @@ ("age" :> Some(35)) @@ ("gender" :> Some("other"))
        @@ ("country" :> Some("Updated Country"))
        @@ ("continent" :> Some("Updated Continent")),
     ("age" :> Some(40)) @@ ("is_admin" :> TRUE)
        @@ ("password" :> get_password_hash("secret99"))}

\* A schema that keeps the fields it does not declare.
model_dump_extra(body) == body

\* user_in.model_dump(exclude_unset=True)
model_dump(body) == [f \in DOMAIN body \cap UserUpdateFields |-> body[f]]

\* current_user: User = Depends(get_current_active_user): the row of the
\* caller as the session of the request loads it.
get_current_active_user(U, u) == U[u]

\* The dependencies of PUT /users/me: the body is parsed and the caller is
\* loaded.
UpdateUserAuthBy(i, u, body) ==
    LET kind == "update_user"
    IN  /\ SlotFree(i)
        /\ Goto(i, ("current_user" :> get_current_active_user(users, u))
                       @@ NewReq(kind, u, Canonical(NilUuid), 0, "check",
                                 {model_dump(body)}))
        /\ UNCHANGED <<users, movies, ratings, comments, nextId, result>>

UpdateUserAuth(i) ==
    \E u \in DOMAIN users, body \in UpdateBodies : UpdateUserAuthBy(i, u, body)

\* if user_in.username and user_in.username != current_user.username:
\*     user = db.query(User).filter(User.username == user_in.username).first()
\* The username is compared with the one the session loaded; the query sees
\* the rows as they are now, the row of the caller among them.
UpdateUserCheck(i) ==
    LET r == reqs[i]
        dump == TheValue(r.seen)
        asked == IF "username" \in DOMAIN dump
                 THEN /\ dump["username"] # ""
                      /\ dump["username"] # r.current_user.username
                 ELSE FALSE
    IN  /\ r.kind = "update_user" /\ r.pc = "check"
        /\ IF asked /\ \E v \in DOMAIN users : users[v].username = dump["username"]
           THEN Finish(i, r.kind, HTTPException(400, "Username already taken"))
           ELSE Goto(i, [r EXCEPT !.pc = "commit"])
        /\ UNCHANGED <<users, movies, ratings, comments, nextId, result>>

\* setattr(current_user, field, value): the attributes whose value differs
\* from the one the session loaded; the UPDATE carries these and no other.
ChangedFields(loaded, dump) == {f \in DOMAIN dump : dump[f] # loaded[f]}

\* for field, value in ...: setattr(current_user, field, value);
\* db.add(current_user); db.commit()
UpdateUserCommit(i) ==
    LET r == reqs[i]
        dump == TheValue(r.seen)
        changed == ChangedFields(r.current_user, dump)
        old == users[r.user]
        row == [f \in DOMAIN old |-> IF f \in changed THEN dump[f] ELSE old[f]]
    IN  /\ r.kind = "update_user" /\ r.pc = "commit"
        /\ IF changed = {}
           THEN /\ Goto(i, [r EXCEPT !.pc = "refresh"])
                /\ UNCHANGED users
           ELSE IF ~users_unique(users, r.user, row)
           THEN /\ Finish(i, r.kind, ServerError("IntegrityError: users"))
                /\ UNCHANGED users
           ELSE /\ users' = [users EXCEPT ![r.user] = row]
                /\ Goto(i, [r EXCEPT !.pc = "refresh"])
        /\ UNCHANGED <<movies, ratings, comments, nextId, result>>

\* db.refresh(current_user)
UpdateUserRefresh(i) ==
    LET r == reqs[i]
    IN  /\ r.kind = "update_user" /\ r.pc = "refresh"
        /\ Finish(i, r.kind, Refreshed(r.user \in DOMAIN users))
        /\ UNCHANGED <<users, movies, ratings, comments, nextId, result>>

\* What a client types in the username and password fields of the login form.
LoginNames == {"admin", "admin@example.com", "user1", "nobody"}
LoginPasswords == {"admin123", "secret99"}

\* if not user or not verify_password(form_data.password, user.password):
\*     raise HTTPException(401, ...); create_access_token({"sub": str(user.id)})
LoginAnswer(found, password) ==
    LET refused == HTTPException(401, "Incorrect email/username or password")
    IN  IF found = {} THEN {refused}
        ELSE {IF ~verify_password(password, users[v].password) THEN refused
              ELSE create_access_token(Canonical(v)) : v \in found}

\* user = db.query(User).filter(User.email == form_data.username).first()
LoginEmailBy(i, username, password) ==
    LET kind == "login"
        by_email == {v \in DOMAIN users : users[v].email = username}
    IN  /\ SlotFree(i)
        /\ IF by_email = {}
           THEN Goto(i, NewReq(kind, 0, Canonical(NilUuid), 0, "username",
                               {[username |-> username, password |-> password]}))
           ELSE \E resp \in LoginAnswer(by_email, password) : Finish(i, kind, resp)
        /\ UNCHANGED <<users, movies, ratings, comments, nextId, result>>

LoginEmail(i) ==
    \E username \in LoginNames, password \in LoginPasswords :
        LoginEmailBy(i, username, password)

\* if not user:
\*     user = db.query(User).filter(User.username == form_data.username).first()
LoginUsername(i) ==
    LET r == reqs[i]
        form == TheValue(r.seen)
        by_username == {v \in DOMAIN users : users[v].username = form.username}
    IN  /\ r.kind = "login" /\ r.pc = "username"
        /\ \E resp \in LoginAnswer(by_username, form.password) :
              Finish(i, r.kind, resp)
        /\ UNCHANGED <<users, movies, ratings, comments, nextId, result>>

InitAccountsStore ==
    /\ users = InitAccounts
    /\ movies = SeedMovies
    /\ ratings = SeedRatings
    /\ comments = SeedComments
    /\ nextId = FirstFreeId
    /\ reqs = [i \in Slots |-> IdleReq]
    /\ result = NoCall

NextUsers ==
    \E i \in Slots :
        \/ RegisterEmail(i)
        \/ RegisterUsername(i)
        \/ RegisterCommit(i)
        \/ RegisterRefresh(i)
        \/ UpdateUserAuth(i)
        \/ UpdateUserCheck(i)
        \/ UpdateUserCommit(i)
        \/ UpdateUserRefresh(i)
        \/ LoginEmail(i)
        \/ LoginUsername(i)

SpecUsers == InitAccountsStore /\ [][NextUsers]_vars

(***************************************************************************)
(* SpecPosts: the handlers that post a rating or a comment, with bodies    *)
(* the schema refuses among the inputs, on the seeded store, on the store  *)
(* with users and movies only, and on the seeded store after delete_movie  *)
(* of the first movie.                                                     *)
(***************************************************************************)
InitPosts ==
    /\ users = InitUsers
    /\ \/ movies = SeedMovies /\ ratings = SeedRatings /\ comments = SeedComments
       \/ movies = SeedMovies /\ ratings = {} /\ comments = {}
       \/ /\ movies = [m \in MovieIds \ {1} |-> SeedMovies[m]]
          /\ ratings = CascadeMovie(SeedRatings, 1)
          /\ comments = CascadeMovie(SeedComments, 1)
    /\ nextId = FirstFreeId
    /\ reqs = [i \in Slots |-> IdleReq]
    /\ result = NoCall

\* POST /ratings/ with a score in range or next to the range.
RatingPosted(i) ==
    \E u \in UserIds, id \in MovieIdStrings,
       s \in {MinScore - 1, MaxScore, MaxScore + 1} :
        RatingMovieBy(i, u, id, s)

NextPosts ==
    \E i \in Slots :
        \/ RatingPosted(i)
        \/ RatingExisting(i)
        \/ RatingCommit(i)
        \/ RatingRefresh(i)
        \/ CommentMovie(i)
        \/ CommentCommit(i)
        \/ CommentRefresh(i)

SpecPosts == InitPosts /\ [][NextPosts]_vars

(***************************************************************************)
(* SpecList: GET /movies/ with the rating filter, on stores in which every *)
(* user has rated every movie or not, with the lowest or highest score.    *)
(* The filter is a float: an exact rational <<n, d>>, or NULL when absent. *)
(***************************************************************************)
\* rating_subquery.c.avg_rating >= rating
AvgGe(avg, rating) ==
    IF avg = Null THEN "U"
    ELSE IF TheValue(avg)[1] * rating[2] >= rating[1] * TheValue(avg)[2]
    THEN "T" ELSE "F"

\* The movies the query of get_movies selects (skip 0, limit above their
\* number, no other filter): movies outer-joined with the average per movie.
get_movies(M, R, rating) ==
    IF rating = Null THEN DOMAIN M
    ELSE {m \in DOMAIN M :
            LET avg_rating == SqlAvg(RatingsOfMovie(R, m))
                is_zero == IF TheValue(rating)[1] = 0 THEN "T" ELSE "F"
            IN  SqlOr(AvgGe(avg_rating, TheValue(rating)),
                      SqlAnd(is_zero, SqlIsNull(avg_rating))) = "T"}

\* The values of the query parameter rating: absent, below the scores, 0,
\* the lowest score, between two averages, the highest score, above it.
RatingFilters ==
    {Null} \cup {Some(<<n, 1>>) : n \in {0 - 1, 0, MinScore, MaxScore, MaxScore + 1}}
           \cup {Some(<<MinScore + MaxScore, 2>>)}

InitList ==
    /\ users = InitUsers
    /\ movies = SeedMovies
    /\ \E s \in [UserIds \X MovieIds -> {0} \cup ScoresTried] :
          ratings = {RatingRow(DrawnId(p[1], p[2]), p[2], p[1], s[p]) :
                        p \in {q \in UserIds \X MovieIds : s[q] # 0}}
    /\ comments = {}
    /\ nextId = FirstFreeId
    /\ reqs = [i \in Slots |-> IdleReq]
    /\ result = NoCall

\* GET /movies/?rating=...
GetMovies ==
    \E rating \in RatingFilters :
        /\ result = NoCall
        /\ result' = [call |-> "get_movies", movie_id |-> Canonical(NilUuid),
                      rating |-> rating,
                      response |-> [outcome |-> "OK", status |-> 200,
                                    movies |-> get_movies(movies, ratings, rating)]]
        /\ UNCHANGED <<users, movies, ratings, comments, nextId, reqs>>

NextList == GetMovies \/ Deliver

SpecList == InitList /\ [][NextList]_vars

(***************************************************************************)
(* SpecConnect: connect_with_retries, called with every max_retries up to  *)
(* MaxRetriesTried (zero and a negative one included).  result holds the   *)
(* running call: the local retries, where the call is (pc), what it        *)
(* returned, and the log of what it did: each connection attempt with its  *)
(* outcome and each time.sleep with its seconds.  The call runs on its     *)
(* own, so it always takes its next step (weak fairness).                  *)
(***************************************************************************)
MaxRetriesTried == 5
RetriesTried == (0 - 1)..MaxRetriesTried
IntervalsTried == {0, 1, 5}

\* A call of connect_with_retries by main.py (main = "connect") or on its
\* own (main = "none"); runs counts the starts of the process.
ConnectCall(main, runs, max_retries, retry_interval) ==
    [call |-> "connect_with_retries", main |-> main, runs |-> runs,
     max_retries |-> max_retries, retry_interval |-> retry_interval,
     retries |-> 0, log |-> <<>>, pc |-> "while", returned |-> "",
     tables |-> "", seeded |-> ""]

\* A loop that sleeps after every failed attempt.
AfterFailure_sleep(retries, max_retries) == "sleep"

\* if retries < max_retries: ... time.sleep(retry_interval)
\* else: ... return False
AfterFailure(retries, max_retries) ==
    IF retries < max_retries THEN "sleep" ELSE "returned"

\* while retries < max_retries: try: with engine.connect() as conn: return True
\* except OperationalError: retries += 1 ...; any other exception leaves the call.
ConnectAttempt ==
    \E outcome \in {"connected", "OperationalError", "Exception"} :
        LET c == result
            log == Append(c.log, [event |-> outcome, seconds |-> 0])
            next == AfterFailure(c.retries + 1, c.max_retries)
        IN  /\ c.call = "connect_with_retries" /\ c.pc = "while"
            /\ c.retries < c.max_retries
            /\ result' =
                  IF outcome = "connected"
                  THEN [c EXCEPT !.log = log, !.pc = "returned", !.returned = "True"]
                  ELSE IF outcome = "Exception"
                  THEN [c EXCEPT !.log = log, !.pc = "raised"]
                  ELSE [c EXCEPT !.log = log, !.retries = c.retries + 1, !.pc = next,
                                 !.returned = IF next = "returned" THEN "False" ELSE ""]
            /\ UNCHANGED <<users, movies, ratings, comments, nextId, reqs>>

\* time.sleep(retry_interval), then the loop condition again
ConnectSleep ==
    LET c == result
    IN  /\ c.call = "connect_with_retries" /\ c.pc = "sleep"
        /\ result' = [c EXCEPT !.pc = "while",
                         !.log = Append(c.log, [event |-> "sleep",
                                                seconds |-> c.retry_interval])]
        /\ UNCHANGED <<users, movies, ratings, comments, nextId, reqs>>

\* The loop condition is false: the function ends without a return statement.
ConnectEnd ==
    LET c == result
    IN  /\ c.call = "connect_with_retries" /\ c.pc = "while"
        /\ ~(c.retries < c.max_retries)
        /\ result' = [c EXCEPT !.pc = "returned", !.returned = "None"]
        /\ UNCHANGED <<users, movies, ratings, comments, nextId, reqs>>

InitConnect ==
    /\ users = InitUsers
    /\ movies = SeedMovies
    /\ ratings = SeedRatings
    /\ comments = SeedComments
    /\ nextId = FirstFreeId
    /\ reqs = [i \in Slots |-> IdleReq]
    /\ \E max_retries \in RetriesTried, retry_interval \in IntervalsTried :
          result = ConnectCall("none", 1, max_retries, retry_interval)

NextConnect == ConnectAttempt \/ ConnectSleep \/ ConnectEnd

SpecConnect == InitConnect /\ [][NextConnect]_vars /\ WF_vars(NextConnect)

(***************************************************************************)
(* SpecBoot: main.py from the start of the process on a database that is   *)
(* empty at first: connect, create the tables, seed, serve.  The process   *)
(* can be started again, on the database the earlier run has left.         *)
(* result.main is the statement main.py is at, result.tables and           *)
(* result.seeded how create_all and init_db ended in this run.             *)
(***************************************************************************)
MaxRuns == 2

\* connect_with_retries(max_retries=5, retry_interval=5) at the top of main.py
MainCall(runs) == ConnectCall("connect", runs, 5, 5)

\* The steps of init_db, in order.
SeedSteps ==
    <<"create_test_users", "create_test_movies", "create_test_comments",
      "create_test_ratings">>

\* if not connect_with_retries(max_retries=5, retry_interval=5): sys.exit(1)
MainConnected ==
    LET c == result
    IN  /\ c.main = "connect" /\ c.pc \in {"returned", "raised"}
        /\ result' = [c EXCEPT !.pc = "over",
                         !.main = IF c.returned = "True" THEN "create_all"
                                  ELSE "exit(1)"]
        /\ UNCHANGED <<users, movies, ratings, comments, nextId, reqs>>

\* A start that goes on when the tables could not be created.
MainCreateAll_lenient ==
    \E created \in BOOLEAN :
        /\ result.main = "create_all"
        /\ result' = [result EXCEPT !.main = SeedSteps[1],
                         !.tables = IF created THEN "created" ELSE "failed"]
        /\ UNCHANGED <<users, movies, ratings, comments, nextId, reqs>>

\* try: Base.metadata.create_all(bind=engine)  except Exception: sys.exit(1)
MainCreateAll ==
    \E created \in BOOLEAN :
        /\ result.main = "create_all"
        /\ result' = [result EXCEPT
                         !.main = IF created THEN SeedSteps[1] ELSE "exit(1)",
                         !.tables = IF created THEN "created" ELSE "failed"]
        /\ UNCHANGED <<users, movies, ratings, comments, nextId, reqs>>

\* A check that never finds a row.
HasRows_never(count) == FALSE

\* if db.query(...).count() > 0: return
HasRows(count) == count > 0

\* id=uuid.uuid4() for every row that is inserted
Fresh(rows) == {[r EXCEPT !.id = nextId + r.id] : r \in rows}

\* A step of init_db has run: it raised SQLAlchemyError (init_db raises and
\* main.py goes on), or returned and the next step (or main.py) goes on.
SeedStepDone(k, raised) ==
    result' = IF raised THEN [result EXCEPT !.main = "app", !.seeded = "raised"]
              ELSE IF k < Len(SeedSteps) THEN [result EXCEPT !.main = SeedSteps[k + 1]]
              ELSE [result EXCEPT !.main = "app", !.seeded = "ok"]

CreateTestUsers ==
    \E raised \in BOOLEAN :
        /\ result.main = SeedSteps[1]
        /\ users' = IF raised \/ HasRows(Cardinality(DOMAIN users)) THEN users ELSE InitUsers
        /\ SeedStepDone(1, raised)
        /\ UNCHANGED <<movies, ratings, comments, nextId, reqs>>

CreateTestMovies ==
    \E raised \in BOOLEAN :
        /\ result.main = SeedSteps[2]
        /\ movies' = IF raised \/ HasRows(Cardinality(DOMAIN movies)) THEN movies ELSE SeedMovies
        /\ SeedStepDone(2, raised)
        /\ UNCHANGED <<users, ratings, comments, nextId, reqs>>

\* if not users or not movies: return
CreateTestComments ==
    \E raised \in BOOLEAN :
        LET skip == raised \/ HasRows(Cardinality(comments)) \/ DOMAIN users = {}
                       \/ DOMAIN movies = {}
        IN  /\ result.main = SeedSteps[3]
            /\ comments' = IF skip THEN comments ELSE comments \cup Fresh(SeedComments)
            /\ nextId' = IF skip THEN nextId ELSE nextId + FirstFreeId
            /\ SeedStepDone(3, raised)
            /\ UNCHANGED <<users, movies, ratings, reqs>>

\* for user in users[1:]: for i, movie in enumerate(movies): score = 7 + (i % 4)
CreateTestRatings ==
    \E raised \in BOOLEAN :
        LET skip == raised \/ HasRows(Cardinality(ratings)) \/ DOMAIN users = {}
                       \/ DOMAIN movies = {}
        IN  /\ result.main = SeedSteps[4]
            /\ ratings' = IF skip THEN ratings ELSE ratings \cup Fresh(SeedRatings)
            /\ nextId' = IF skip THEN nextId ELSE nextId + FirstFreeId
            /\ SeedStepDone(4, raised)
            /\ UNCHANGED <<users, movies, comments, reqs>>

\* app = FastAPI(...); app.include_router(...): the server takes requests
MainApp ==
    /\ result.main = "app"
    /\ result' = [result EXCEPT !.main = "serving"]
    /\ UNCHANGED <<users, movies, ratings, comments, nextId, reqs>>

\* GET /
Root(i) ==
    /\ result.main = "serving"
    /\ SlotFree(i)
    /\ Finish(i, "root", Success(200))
    /\ UNCHANGED <<users, movies, ratings, comments, nextId, result>>

\* The process is started again.
MainStart ==
    /\ result.main \in {"serving", "exit(1)"}
    /\ result.runs < MaxRuns
    /\ result' = MainCall(result.runs + 1)
    /\ UNCHANGED <<users, movies, ratings, comments, nextId, reqs>>

InitBoot ==
    /\ users = <<>>
    /\ movies = <<>>
    /\ ratings = {}
    /\ comments = {}
    /\ nextId = FirstFreeId
    /\ reqs = [i \in Slots |-> IdleReq]
    /\ result = MainCall(1)

\* With max_retries = 5 the loop of connect_with_retries is entered and left
\* by a return statement: ConnectEnd is no step of main.py.
NextBoot ==
    \/ ConnectAttempt
    \/ ConnectSleep
    \/ MainConnected
    \/ MainCreateAll
    \/ CreateTestUsers
    \/ CreateTestMovies
    \/ CreateTestComments
    \/ CreateTestRatings
    \/ MainApp
    \/ \E i \in Slots : Root(i)
    \/ MainStart

SpecBoot == InitBoot /\ [][NextBoot]_vars

(***************************************************************************)
(* Properties of the rating store under interleaved requests (SpecRatings, *)
(* Spec).                                                                  *)
(***************************************************************************)
UniqueViolation == ServerError("IntegrityError: uq_user_movie_rating")

\* C1: in every reachable state, whatever the interleaving of
\* create_or_update_rating and delete_rating, there is at most one Rating
\* per (user, movie) pair.
C1_OneRatingPerUserAndMovie ==
    \A x, y \in ratings : (x.user = y.user /\ x.movie = y.movie) => x = y

\* The constraint has acted: an insertion for a pair that is already rated
\* was refused, and the pair still has its one rating.
C1_Witness ==
    \E i \in Slots, x \in ratings :
        /\ reqs[i].response = UniqueViolation
        /\ x.user = 1
        /\ Cardinality({y \in ratings : y.user = 1 /\ y.movie = x.movie}) = 1

\* C2 (as claimed): a submission for a pair that is rated by the time it is
\* committed is treated as an update, so no create_or_update_rating ends in
\* an insertion the uniqueness constraint rejects.
C2_NoSubmissionRejected ==
    \A i \in Slots :
        (reqs[i].kind = "create_or_update_rating" /\ reqs[i].pc = "done")
            => reqs[i].response # UniqueViolation

\* C3: when the user already has a rating for the movie (and the handler's
\* view of that row is the current one), the commit of
\* create_or_update_rating with score s updates that row in place: same id,
\* user and movie, score s, the movie has as many ratings as before, every
\* other rating is untouched; the handler goes on to refresh that row, and
\* the refresh changes nothing.
C3_UpdateInPlace ==
    [][\A i \in Slots :
        LET r == reqs[i]
            mine == {x \in ratings : x.user = r.user /\ x.movie = r.id.uuid}
        IN  /\ (r.kind = "create_or_update_rating" /\ r.pc = "refresh"
                  /\ reqs'[i].pc # "refresh")
               => ratings' = ratings
            /\ (/\ r.kind = "create_or_update_rating"
                /\ r.pc = "commit"
                /\ reqs'[i].pc # "commit"
                /\ mine # {}
                /\ r.seen = mine)
               => LET x == TheValue(mine)
               IN  /\ reqs'[i] = [r EXCEPT !.pc = "refresh", !.seen = {x.id}]
                   /\ ratings' = (ratings \ {x})
                                    \cup {RatingRow(x.id, x.movie, x.user, r.score)}
                   /\ Cardinality({y \in ratings' : y.movie = x.movie})
                        = Cardinality({y \in ratings : y.movie = x.movie})
      ]_vars

\* A seeded rating carries a score that only a later submission can have
\* given it, next to the other seeded ratings with their seeded scores.
C3_Witness ==
    /\ \E x \in ratings :
          /\ x.id = DrawnId(2, 1)
          /\ x.user = 2 /\ x.movie = 1
          /\ x.score = MaxScore
          /\ ratings \ {x} = SeedRatings \ {RatingRow(DrawnId(2, 1), 1, 2, SeedScore(1))}
    /\ \E i \in Slots :
          /\ reqs[i].kind = "create_or_update_rating"
          /\ reqs[i].response = Success(200)

\* C4 (as claimed): a delete_movie by an admin that finds its movie removes
\* the movie and every rating that references it, whether or not the movie
\* has ratings; and every rating references an existing movie and user.
C4_DeleteMovieCascades ==
    /\ \A i \in Slots :
          (/\ reqs[i].kind = "delete_movie"
           /\ reqs[i].pc = "done"
           /\ reqs[i].response.status \notin {400, 403, 404})
              => reqs[i].response = Success(204)
    /\ \A x \in ratings : x.movie \in DOMAIN movies /\ x.user \in DOMAIN users

(***************************************************************************)
(* Properties of the statistics endpoints (SpecStats).  The expected       *)
(* values are stated on the raters of the movie as sets, not through the   *)
(* SQL expressions of the handler.                                         *)
(***************************************************************************)
IsStatsCall == result.call = "get_movie_statistics"
StatsOk == IsStatsCall /\ result.response.outcome = "OK"

\* The movie a well-formed identifier names.
Asked == result.movie_id.uuid

RatersOf(m) == {x.user : x \in {y \in ratings : y.movie = m}}

\* The sum of the scores of the rows S, score by score.
RECURSIVE ScoreMass(_, _)
ScoreMass(S, k) ==
    IF k = 0 THEN 0
    ELSE k * Cardinality({x \in S : x.score = k}) + ScoreMass(S, k - 1)

\* C5: get_movie_statistics and get_movie_rating_stats for an identifier
\* that names no movie end in NotFound (404, "Movie not found") and return
\* nothing else, whatever users exist and whatever ratings other movies have.
C5_UnknownMovieNotFound ==
    (/\ result.call \in {"get_movie_statistics", "get_movie_rating_stats"}
     /\ result.movie_id.form # "malformed"
     /\ Asked \notin DOMAIN movies)
        => result.response = [outcome |-> "HTTPException", status |-> 404,
                              detail |-> "Movie not found"]

C5_Witness ==
    /\ IsStatsCall
    /\ result.movie_id = Canonical(NilUuid)
    /\ result.response.status = 404
    /\ \A m \in MovieIds : Cardinality(RatersOf(m)) = NumUsers

\* C6 (as claimed): for every identifier string, well formed or not,
\* get_movie_statistics ends in a complete result or in NotFound.
C6_NotFoundOnlyFailure ==
    (IsStatsCall /\ result.response # NoResponse) =>
        \/ result.response.outcome = "OK"
        \/ (result.response.outcome = "HTTPException" /\ result.response.status = 404)

\* C7: for an existing movie, total_ratings is the number of its rating rows
\* and average_rating (n/d) is the mean of their scores: n * total = d * sum.
C7_AverageAndTotal ==
    StatsOk =>
        LET S == {x \in ratings : x.movie = Asked}
            avg == result.response.average_rating
        IN  /\ result.response.total_ratings = Cardinality(S)
            /\ avg[2] > 0
            /\ avg[1] * Cardinality(S) = avg[2] * ScoreMass(S, MaxScore)

\* Two ratings with a fractional mean, while another movie is rated too.
C7_Witness ==
    /\ StatsOk
    /\ result.response.total_ratings = 2
    /\ result.response.average_rating = <<MinScore + MaxScore, 2>>
    /\ \E x \in ratings : x.movie # Asked

\* C8: for an existing movie without ratings the result is average 0.0,
\* total 0, 0 in every age, gender and continent bucket, and an empty
\* country map.
C8_NoRatings ==
    (StatsOk /\ RatersOf(Asked) = {}) =>
        LET resp == result.response
        IN  /\ resp.average_rating = <<0, 1>>
            /\ resp.total_ratings = 0
            /\ \A b \in DOMAIN resp.age_statistics : resp.age_statistics[b] = 0
            /\ DOMAIN resp.age_statistics =
                  {"under18", "age18to24", "age25to34", "age35to44", "age45to54",
                   "age55plus"}
            /\ \A b \in DOMAIN resp.gender_statistics : resp.gender_statistics[b] = 0
            /\ DOMAIN resp.gender_statistics = {"male", "female", "other", "not_specified"}
            /\ \A b \in DOMAIN resp.continent_statistics :
                  resp.continent_statistics[b] = 0
            /\ DOMAIN resp.continent_statistics =
                  {"africa", "asia", "europe", "north_america", "south_america",
                   "australia", "antarctica"}
            /\ DOMAIN resp.country_statistics = {}

\* The movie has no rating while every user has rated another movie.
C8_Witness ==
    /\ StatsOk
    /\ RatersOf(Asked) = {}
    /\ \E m \in MovieIds : RatersOf(m) = UserIds
    /\ \E u \in UserIds : users[u].age # Null /\ users[u].country # Null

\* The raters of the asked movie whose age is known and lies in lo..hi.
AgedBetween(lo, hi) ==
    {u \in RatersOf(Asked) :
        users[u].age # Null /\ lo <= TheValue(users[u].age) /\ TheValue(users[u].age) <= hi}

\* C9: every rater with a known age is counted in exactly the bucket of its
\* range (age<18, 18..24, 25..34, 35..44, 45..54, age>=55, bounds
\* inclusive), a rater without an age in none.
C9_AgeBuckets ==
    StatsOk =>
        LET a == result.response.age_statistics
        IN  /\ a.under18 = Cardinality({u \in RatersOf(Asked) :
                    users[u].age # Null /\ TheValue(users[u].age) < 18})
            /\ a.age18to24 = Cardinality(AgedBetween(18, 24))
            /\ a.age25to34 = Cardinality(AgedBetween(25, 34))
            /\ a.age35to44 = Cardinality(AgedBetween(35, 44))
            /\ a.age45to54 = Cardinality(AgedBetween(45, 54))
            /\ a.age55plus = Cardinality({u \in RatersOf(Asked) :
                    users[u].age # Null /\ TheValue(users[u].age) >= 55})
            /\ a.under18 + a.age18to24 + a.age25to34 + a.age35to44 + a.age45to54
                 + a.age55plus
                 = Cardinality({u \in RatersOf(Asked) : users[u].age # Null})

\* A rater aged 24 and a rater without an age: one count, in 18..24.
C9_Witness ==
    /\ StatsOk
    /\ \E u, v \in RatersOf(Asked) :
          /\ users[u].age = Some(24)
          /\ users[v].age = Null
          /\ RatersOf(Asked) = {u, v}
    /\ result.response.age_statistics.age18to24 = 1
    /\ result.response.age_statistics.age25to34 = 0

GenderIs(g) == {u \in RatersOf(Asked) : users[u].gender = Some(g)}

\* C10: every rater is counted in exactly one gender bucket: male, female
\* or other when the gender is exactly that string, not_specified when it
\* is NULL or any other string.
C10_GenderBuckets ==
    StatsOk =>
        LET g == result.response.gender_statistics
        IN  /\ g.male = Cardinality(GenderIs("male"))
            /\ g.female = Cardinality(GenderIs("female"))
            /\ g.other = Cardinality(GenderIs("other"))
            /\ g.not_specified =
                  Cardinality(RatersOf(Asked)
                     \ (GenderIs("male") \cup GenderIs("female") \cup GenderIs("other")))
            /\ g.male + g.female + g.other + g.not_specified
                 = Cardinality(RatersOf(Asked))

\* A rater spelled "Male" and a rater without a gender: both not_specified.
C10_Witness ==
    /\ StatsOk
    /\ \E u, v \in RatersOf(Asked) :
          /\ users[u].gender = Some("Male")
          /\ users[v].gender = Null
    /\ result.response.gender_statistics.not_specified = 2
    /\ result.response.gender_statistics.male = 0

ContinentIs(c) == {u \in RatersOf(Asked) : users[u].continent = Some(c)}

ContinentBuckets ==
    {"africa", "asia", "europe", "north_america", "south_america", "australia",
     "antarctica"}

\* C11: in continent_statistics a rater is counted in bucket b exactly when
\* the rater's continent is the string b, for the seven buckets; a rater
\* whose continent is NULL or any other string is counted in no bucket.
C11_ContinentBuckets ==
    StatsOk =>
        LET c == result.response.continent_statistics
        IN  /\ DOMAIN c = ContinentBuckets
            /\ \A b \in ContinentBuckets : c[b] = Cardinality(ContinentIs(b))

\* A rater from "europe", a rater whose continent is spelled "EU": one count.
C11_Witness ==
    /\ StatsOk
    /\ \E u, v \in RatersOf(Asked) :
          /\ users[u].continent = Some("europe")
          /\ users[v].continent = Some("EU")
          /\ RatersOf(Asked) = {u, v}
    /\ result.response.continent_statistics.europe = 1
    /\ \A b \in ContinentBuckets \ {"europe"} :
          result.response.continent_statistics[b] = 0

\* The raters of the asked movie whose country is the string c.
CountryIs(c) == {u \in RatersOf(Asked) : users[u].country = Some(c)}

\* The country strings of the raters of the asked movie.
CountriesOfRaters ==
    {TheValue(users[u].country) : u \in {v \in RatersOf(Asked) : users[v].country # Null}}

\* C12 (as claimed): the map has key c exactly when some rater of the movie
\* has country c, for every string c, and the value is the number of such
\* raters.
C12_CountryEveryString ==
    StatsOk =>
        LET c == result.response.country_statistics
        IN  /\ DOMAIN c = CountriesOfRaters
            /\ \A k \in DOMAIN c : c[k] = Cardinality(CountryIs(k)) /\ c[k] > 0

\* C12 (amended): the same for every non-empty string c; a rater whose
\* country is NULL or the empty string adds no key.
C12_CountryNonEmpty ==
    StatsOk =>
        LET c == result.response.country_statistics
        IN  /\ DOMAIN c = CountriesOfRaters \ {""}
            /\ \A k \in DOMAIN c : c[k] = Cardinality(CountryIs(k)) /\ c[k] > 0

\* A rater from "USA" and a rater whose country is the empty string: one key.
C12_Witness ==
    /\ StatsOk
    /\ \E u, v \in RatersOf(Asked) :
          /\ users[u].country = Some("USA")
          /\ users[v].country = Some("")
    /\ result.response.country_statistics = [k \in {"USA"} |-> 1]

\* The sum of the values of a record of counts.
RECURSIVE SumOfBuckets(_, _)
SumOfBuckets(rec, keys) ==
    IF keys = {} THEN 0
    ELSE LET k == CHOOSE x \in keys : TRUE
         IN  rec[k] + SumOfBuckets(rec, keys \ {k})

\* C13: for an existing movie, with no write during the call, the six age
\* buckets sum to at most total_ratings, to exactly total_ratings if and
\* only if no rater of the movie has a NULL age, and the seven continent
\* buckets sum to at most total_ratings.
C13_BucketSums ==
    StatsOk =>
        LET resp == result.response
            ages == SumOfBuckets(resp.age_statistics, DOMAIN resp.age_statistics)
            conts == SumOfBuckets(resp.continent_statistics,
                                  DOMAIN resp.continent_statistics)
        IN  /\ ages <= resp.total_ratings
            /\ (ages = resp.total_ratings)
                  <=> (\A u \in RatersOf(Asked) : users[u].age # Null)
            /\ conts <= resp.total_ratings

\* Raters aged exactly 18 and 55 (the bounds of two buckets): the sum is the total.
C13_Witness ==
    /\ StatsOk
    /\ \E u, v \in RatersOf(Asked) :
          /\ users[u].age = Some(18)
          /\ users[v].age = Some(55)
    /\ result.response.total_ratings = 2
    /\ SumOfBuckets(result.response.age_statistics,
                    DOMAIN result.response.age_statistics) = 2

\* What the other statistics endpoint answers for the identifier of the
\* last call, on the same state of the store.
\* What the lookup of either endpoint makes of the identifier asked, on the
\* store as it is: an error, NotFound, or the movie.
LookupNow ==
    LET b == GuidParam(result.movie_id)
    IN  IF b = Null THEN ServerError(GuidError(result.movie_id))
        ELSE IF ~MovieFound(movies, TheValue(b)) THEN NotFound
        ELSE Success(200)

\* What get_movie_statistics and get_movie_rating_stats answer about the
\* ratings of the movie asked on the store as it is (no request of SpecStats
\* writes).
FullStatsNow ==
    IF LookupNow # Success(200) THEN LookupNow
    ELSE [outcome |-> "OK", status |-> 200,
          average_rating |-> BasicStats(ratings, StatsMovieOf).average_rating,
          total_ratings |-> BasicStats(ratings, StatsMovieOf).total_ratings]
RatingStatsNow ==
    IF LookupNow # Success(200) THEN LookupNow
    ELSE [outcome |-> "OK", status |-> 200,
          average_score |-> RatingStats(ratings, StatsMovieOf).average_score,
          total_ratings |-> RatingStats(ratings, StatsMovieOf).total_ratings]

\* Both NotFound, or both a result with the same average and the same count.
SameBasicAnswer(full, short) ==
    \/ full = NotFound /\ short = NotFound
    \/ /\ full.outcome = "OK" /\ short.outcome = "OK"
       /\ full.average_rating = short.average_score
       /\ full.total_ratings = short.total_ratings

\* C15: in every state get_movie_rating_stats and get_movie_statistics
\* agree for every movie identifier: both end in NotFound, or both succeed
\* with average_score = average_rating and the same total_ratings.  (For a
\* string that is no identifier both end in the same error.)
C15_EndpointsAgree ==
    result.response # NoResponse =>
        /\ (IsStatsCall /\ result.movie_id.form # "malformed")
              => SameBasicAnswer(result.response, RatingStatsNow)
        /\ (result.call = "get_movie_rating_stats"
                /\ result.movie_id.form # "malformed")
              => SameBasicAnswer(FullStatsNow, result.response)
        /\ (result.call = "get_movie_rating_stats"
                /\ result.movie_id.form = "malformed")
              => /\ FullStatsNow.outcome = result.response.outcome
                 /\ FullStatsNow.status = result.response.status

\* The short endpoint answered a fractional average for a rated movie.
C15_Witness ==
    /\ result.call = "get_movie_rating_stats"
    /\ result.response.outcome = "OK"
    /\ result.response.total_ratings = 2
    /\ result.response.average_score = <<MinScore + MaxScore, 2>>
    /\ FullStatsNow.total_ratings = 2

(***************************************************************************)
(* Properties of get_movie_statistics called again (SpecAgain).            *)
(***************************************************************************)
\* The answer the client was given last was for the identifier of the call
\* that has now returned.
AskedAgain ==
    /\ IsStatsCall
    /\ result.response # NoResponse
    /\ reqs[1].pc = "done"
    /\ reqs[1].id = result.movie_id

\* C16: a call of get_movie_statistics for the movie id of an earlier call,
\* with no write to users, movies or ratings since that call (no request of
\* SpecAgain writes), returns what the earlier call returned: the same
\* outcome, the same average and count, the same buckets and the same
\* country entries.
C16_SameAnswerAgain == AskedAgain => result.response = reqs[1].response

\* The second call for a movie that several users of several countries have
\* rated has returned, after a call for that movie was answered.
C16_Witness ==
    /\ AskedAgain
    /\ StatsOk
    /\ result.response.total_ratings = NumUsers
    /\ Cardinality(DOMAIN result.response.country_statistics) >= 2

\* C17: every statement of a call of get_movie_statistics or of
\* get_movie_rating_stats, whether the call ends in a result or in NotFound,
\* leaves users, movies, ratings and comments and all their fields as they
\* were.
C17_NoSideEffects ==
    [][result' # result => UNCHANGED <<users, movies, ratings, comments>>]_vars

\* A call that ended in NotFound on a store that holds ratings.
C17_Witness ==
    /\ result.call = "get_movie_rating_stats"
    /\ result.response = NotFound
    /\ \A m \in MovieIds : RatersOf(m) # {}

(***************************************************************************)
(* Properties of get_movie_statistics next to writers (SpecReads).         *)
(***************************************************************************)
\* C14 (as claimed): in every result get_movie_statistics returns, the four
\* gender buckets sum to total_ratings, also when a create_or_update_rating
\* or a delete_rating for the movie commits between the queries of the call.
C14_GenderSumIsTotal ==
    StatsOk =>
        LET g == result.response.gender_statistics
        IN  g.male + g.female + g.other + g.not_specified
               = result.response.total_ratings

(***************************************************************************)
(* Properties of get_db (SpecDb).                                          *)
(***************************************************************************)
\* C18: a session that get_db opened for a request is closed once the
\* request is over, whether the handler returned or raised; a request whose
\* SessionLocal() failed ends with that error and has no session; a session
\* is open only while its request is being served.
C18_SessionClosed ==
    \A i \in Slots :
        /\ reqs[i].pc = "done" => reqs[i].session # "open"
        /\ reqs[i].session = "open" => reqs[i].pc \in {"yield", "finally"}
        /\ (reqs[i].pc = "done" /\ reqs[i].session = "closed")
              => reqs[i].response \in HandlerOutcomes
        /\ (reqs[i].pc = "done" /\ reqs[i].session = "none")
              => reqs[i].response = ServerError("SessionLocal")

\* One request ended in NotFound with its session closed, another could
\* not open a session.
C18_Witness ==
    \E i, j \in Slots :
        /\ reqs[i].pc = "done" /\ reqs[i].response = NotFound
        /\ reqs[i].session = "closed"
        /\ reqs[j].pc = "done" /\ reqs[j].response = ServerError("SessionLocal")
        /\ reqs[j].session = "none"

(***************************************************************************)
(* Properties of the handlers reserved to the author or an admin           *)
(* (SpecOwner).                                                            *)
(***************************************************************************)
OwnerKinds == {"delete_rating", "update_comment", "delete_comment"}

\* The rows of a table that the identifier string id names.
RowsNamed(rows, id) == {x \in rows : id.form # "malformed" /\ x.id = id.uuid}

\* What the first step of a call by user u for id must do, on the table rows:
\* 404 for an identifier that names nothing, 403 for a caller who is neither
\* the author nor an admin, otherwise on to the write; no row changes.
LookupOutcome(i, rows, u, id, detail) ==
    /\ UNCHANGED <<users, movies, ratings, comments>>
    /\ (id.form # "malformed" /\ RowsNamed(rows, id) = {})
          => reqs'[i].response = HTTPException(404, detail)
    /\ \A x \in RowsNamed(rows, id) :
          IF x.user = u \/ users[u].is_admin
          THEN reqs'[i].pc = "commit" /\ reqs'[i].user = u
          ELSE /\ reqs'[i].pc = "done"
               /\ reqs'[i].response = HTTPException(403, "Not enough permissions")

\* What the write of request i may do: it is the write of the author or of
\* an admin, and it touches no row but the one the request looked up.
CommitOutcome(i) ==
    LET x == TheValue(reqs[i].seen)
        others(rows) == {y \in rows : y.id # x.id}
    IN  /\ x.user = reqs[i].user \/ users[reqs[i].user].is_admin
        /\ others(ratings') = others(ratings)
        /\ others(comments') = others(comments)
        /\ reqs[i].kind = "delete_rating" => comments' = comments
        /\ reqs[i].kind # "delete_rating" => ratings' = ratings

\* C19: delete_rating, update_comment and delete_comment take effect only
\* when the caller is the author of the rating or comment or is an admin;
\* for any other caller the call ends in 403 "Not enough permissions" with
\* the rating or comment unchanged, and for an identifier that matches
\* nothing it ends in 404 with no change.
C19_AuthorOrAdminOnly ==
    [][/\ \A i \in Slots :
            (reqs[i].pc = "idle" /\ reqs'[i].pc # "idle")
               => \A u \in UserIds :
                     /\ \A id \in RatingIdStrings :
                           DeleteRatingLookupBy(i, u, id)
                              => LookupOutcome(i, ratings, u, id, "Rating not found")
                     /\ \A id \in CommentIdStrings :
                           (\/ DeleteCommentLookupBy(i, u, id)
                            \/ \E text \in CommentTexts :
                                  UpdateCommentLookupBy(i, u, id, text))
                              => LookupOutcome(i, comments, u, id, "Comment not found")
       /\ \A i \in Slots :
            (reqs[i].kind \in OwnerKinds /\ reqs[i].pc = "commit" /\ reqs'[i].pc # "commit")
               => CommitOutcome(i)
       /\ (ratings' # ratings \/ comments' # comments)
            => \E i \in Slots : reqs[i].pc = "commit" /\ reqs'[i].pc # "commit"]_vars

\* A user who is no admin was refused the admin's rating, which is still
\* there, and an edit of a comment went through.
C19_Witness ==
    \E i, j \in Slots :
        /\ reqs[i].kind = "delete_rating"
        /\ reqs[i].response = HTTPException(403, "Not enough permissions")
        /\ AdminRating \in ratings
        /\ reqs[j].kind = "update_comment"
        /\ reqs[j].response = Success(200)
        /\ \E c \in comments : c.text = "edited"

(***************************************************************************)
(* Properties of the handlers reserved to an admin (SpecAdmin).            *)
(***************************************************************************)
Forbidden == HTTPException(403, "Not enough permissions")

\* The call of request i ended at once in 403 and changed no movie.
RefusedAtOnce(i) ==
    /\ reqs'[i].pc = "done"
    /\ reqs'[i].response = Forbidden
    /\ movies' = movies

\* C20: create_movie, update_movie and delete_movie called by a user who is
\* no admin end in 403 "Not enough permissions" and leave the movies and
\* their fields unchanged; for update and delete the outcome is that same
\* 403 for an identifier that names a movie, that names none, or that is
\* malformed.  Every change of the movies is made by a request of an admin.
C20_NonAdminRefused ==
    [][/\ \A i \in Slots, u \in {v \in UserIds : ~users[v].is_admin} :
            /\ \A title \in MovieTitles :
                  CreateMovieBy(i, u, title) => RefusedAtOnce(i)
            /\ \A id \in CatalogueIdStrings :
                  /\ DeleteMovieLookupBy(i, u, id) => RefusedAtOnce(i)
                  /\ \A title \in MovieTitles :
                        UpdateMovieLookupBy(i, u, id, title) => RefusedAtOnce(i)
       /\ \A i \in Slots :
            (/\ reqs[i].kind \in {"create_movie", "update_movie", "delete_movie"}
             /\ reqs[i].pc \notin {"idle", "done"})
               => users[reqs[i].user].is_admin
       /\ movies' # movies
            => \E i \in Slots :
                  \/ reqs[i].pc \in {"commit", "delete"} /\ reqs'[i].pc # reqs[i].pc
                  \/ \E a \in {v \in UserIds : users[v].is_admin}, title \in MovieTitles :
                        CreateMovieBy(i, a, title)]_vars

\* A user who is no admin was refused an update, while the admin's update
\* of the same catalogue went through.
C20_Witness ==
    \E i, j \in Slots :
        /\ reqs[i].kind = "update_movie" /\ reqs[i].response = Forbidden
        /\ reqs[j].kind = "update_movie" /\ reqs[j].response = Success(200)
        /\ \E m \in DOMAIN movies : movies[m].title = "retitled"

(***************************************************************************)
(* Properties of the accounts (SpecUsers).                                 *)
(***************************************************************************)
UniqueAccounts ==
    \A u, v \in DOMAIN users :
        u # v => /\ users[u].username # users[v].username
                 /\ users[u].email # users[v].email

EmailHeld(email) == \E v \in DOMAIN users : users[v].email = email
UsernameHeldBesides(u, username) ==
    \E v \in DOMAIN users \ {u} : users[v].username = username

Refused(i, detail) ==
    /\ reqs'[i].pc = "done"
    /\ reqs'[i].response = HTTPException(400, detail)
    /\ users' = users

\* C21: whatever the interleaving of register and update_user requests, no
\* two users share a username or an email; a register whose email or username
\* is held by an existing user when the handler looks for it ends in 400 and
\* creates no user; an update_user to a username held by another user ends
\* in 400 "Username already taken" and changes nothing.
C21_UniqueAndRejected ==
    [][/\ UniqueAccounts'
       /\ \A i \in Slots, form \in RegisterForms :
             RegisterEmailBy(i, form) /\ EmailHeld(form.email)
                 => Refused(i, "A user with this email already exists")
       /\ \A i \in Slots :
             (RegisterUsername(i)
                 /\ UsernameHeldBesides(0, TheValue(reqs[i].seen).username))
                 => Refused(i, "A user with this username already exists")
       /\ \A i \in Slots :
             (/\ UpdateUserCheck(i)
              /\ "username" \in DOMAIN TheValue(reqs[i].seen)
              /\ UsernameHeldBesides(reqs[i].user,
                                     TheValue(reqs[i].seen)["username"]))
                 => Refused(i, "Username already taken")]_vars

\* C22: no request changes the admin flag, the email, the password or the
\* id of a user, and a user created by register is not an admin.
C22_AdminFlagFixed ==
    [][/\ \A u \in DOMAIN users :
             /\ u \in DOMAIN users'
             /\ users'[u].is_admin = users[u].is_admin
             /\ users'[u].email = users[u].email
             /\ users'[u].password = users[u].password
       /\ \A u \in DOMAIN users' \ DOMAIN users : users'[u].is_admin = FALSE]_vars

\* An update_user whose body carried is_admin and password has been applied,
\* and a user has registered.
C22_Witness ==
    /\ \E i \in Slots :
          reqs[i].kind = "update_user" /\ reqs[i].response = Success(200)
    /\ \E u \in UserIds : users[u].age = Some(40)
    /\ \E u \in DOMAIN users \ UserIds : ~users[u].is_admin

\* C23: a registered user who submits their own username and their correct
\* password receives a token whose subject is their id, whoever else is
\* registered; a login that names no user, or with a password that is wrong
\* for the users it names, ends in 401.
C23_LoginByUsername ==
    [][\A i \in Slots :
          /\ \A u \in DOMAIN users, password \in LoginPasswords :
                (/\ LoginEmailBy(i, users[u].username, password)
                 /\ reqs'[i].pc = "done"
                 /\ verify_password(password, users[u].password))
                    => reqs'[i].response = create_access_token(Canonical(u))
          /\ \A u \in DOMAIN users :
                (/\ LoginUsername(i)
                 /\ TheValue(reqs[i].seen).username = users[u].username
                 /\ verify_password(TheValue(reqs[i].seen).password,
                                    users[u].password))
                    => reqs'[i].response = create_access_token(Canonical(u))
          /\ \A username \in LoginNames, password \in LoginPasswords :
                (/\ \/ LoginEmailBy(i, username, password) /\ reqs'[i].pc = "done"
                    \/ /\ LoginUsername(i)
                       /\ TheValue(reqs[i].seen)
                              = [username |-> username, password |-> password]
                 /\ \A v \in DOMAIN users :
                       (users[v].email = username \/ users[v].username = username)
                           => ~verify_password(password, users[v].password))
                    => reqs'[i].response.status = 401]_vars

(***************************************************************************)
(* Properties of the handlers that post a rating or a comment (SpecPosts).  *)
(***************************************************************************)
\* The movie id of a request names no movie of the store.
NoSuchMovie(id) ==
    /\ GuidParam(id) # Null
    /\ TheValue(GuidParam(id)) \notin DOMAIN movies

\* C24: create_or_update_rating and create_comment for a movie id that
\* matches no Movie end in 404 "Movie not found" and create or change no
\* Rating and no Comment.
C24_UnknownMovieRefused ==
    [][\A i \in Slots :
          (reqs[i].pc = "idle" /\ reqs'[i].pc # "idle")
              => \A u \in UserIds, id \in MovieIdStrings :
                    NoSuchMovie(id)
                        => /\ \A s \in Scores :
                                 RatingMovieBy(i, u, id, s)
                                     => /\ reqs'[i].response =
                                               HTTPException(404, "Movie not found")
                                        /\ ratings' = ratings /\ comments' = comments
                           /\ CommentMovieBy(i, u, id)
                                 => /\ reqs'[i].response =
                                           HTTPException(404, "Movie not found")
                                    /\ ratings' = ratings /\ comments' = comments]_vars

\* A rating and a comment for a movie that has been deleted were refused.
C24_Witness ==
    \E i, j \in Slots :
          /\ 1 \notin DOMAIN movies
          /\ reqs[i].kind = "create_or_update_rating" /\ reqs[i].response = NotFound
          /\ reqs[j].kind = "create_comment" /\ reqs[j].response = NotFound

\* C25: every stored rating has an integer score from 1 to 10, so that for
\* every movie the average is 0 exactly when it has no rating and lies
\* between 1 and 10 otherwise.
C25_ScoresInRange ==
    /\ \A r \in ratings : r.score \in MinScore..MaxScore
    /\ \A m \in DOMAIN movies :
          LET stats == RatingStats(ratings, m)
              avg == stats.average_score
          IN  /\ (avg[1] = 0) <=> (stats.total_ratings = 0)
              /\ stats.total_ratings # 0
                    => MinScore * avg[2] <= avg[1] /\ avg[1] <= MaxScore * avg[2]

\* A score out of range was refused and a score in range was stored, with
\* a movie left that nobody has rated.
C25_Witness ==
    /\ \E m \in DOMAIN movies : \A r \in ratings : r.movie # m
    /\ \E i \in Slots :
          /\ reqs[i].kind = "create_or_update_rating"
          /\ reqs[i].response = HTTPException(422, "score")
    /\ \E i \in Slots :
          /\ reqs[i].kind = "create_or_update_rating"
          /\ reqs[i].response = Success(200)
    /\ \E r \in ratings : r.score = MaxScore

(***************************************************************************)
(* Properties of the list of movies (SpecList).                            *)
(***************************************************************************)
\* Movie m has a rating, and its scores average at least n/d.
AveragesAtLeast(m, n, d) ==
    LET S == {x \in ratings : x.movie = m}
    IN  S # {} /\ ScoreMass(S, MaxScore) * d >= n * Cardinality(S)

\* C26: with a rating filter r, get_movies returns exactly the movies whose
\* average score is at least r, plus the movies with no rating if and only
\* if r is 0; without the filter it returns every movie.
C26_RatingFilter ==
    result.call = "get_movies" =>
        LET r == result.rating
            rated == {m \in DOMAIN movies :
                         AveragesAtLeast(m, TheValue(r)[1], TheValue(r)[2])}
            unrated == {m \in DOMAIN movies : RatersOf(m) = {}}
        IN  IF r = Null THEN result.response.movies = DOMAIN movies
            ELSE result.response.movies =
                     rated \cup (IF TheValue(r) = <<0, 1>> THEN unrated ELSE {})

\* A filter between two averages kept one rated movie and dropped another.
C26_Witness ==
    /\ result.call = "get_movies"
    /\ result.rating = Some(<<MinScore + MaxScore, 2>>)
    /\ \E m \in DOMAIN movies : m \in result.response.movies
    /\ \E m \in DOMAIN movies : RatersOf(m) # {} /\ m \notin result.response.movies

\* Filter 0 returned a movie that nobody has rated.
C26_WitnessZero ==
    /\ result.call = "get_movies"
    /\ result.rating = Some(<<0, 1>>)
    /\ \E m \in result.response.movies : RatersOf(m) = {}

(***************************************************************************)
(* Properties of connect_with_retries (SpecConnect) and of the start of    *)
(* the process (SpecBoot).                                                 *)
(***************************************************************************)
\* The positions in the log of a call at which event e stands.
Events(e) == {k \in DOMAIN result.log : result.log[k].event = e}
Attempts == DOMAIN result.log \ Events("sleep")
ConnectOver == result.call = "connect_with_retries" /\ result.pc = "returned"

\* C27: for every max_retries, connect_with_retries returns True if a
\* connection attempt succeeds and False otherwise: True as soon as one of
\* the first max_retries attempts succeeds, False when all of them fail
\* with OperationalError.
C27_ReturnsBool ==
    ConnectOver =>
        /\ result.returned \in {"True", "False"}
        /\ result.returned = "True" <=> Events("connected") # {}
        /\ result.returned = "True" =>
              /\ Events("connected") = {Len(result.log)}
              /\ Cardinality(Attempts) <= result.max_retries
        /\ result.returned = "False" =>
              /\ Events("OperationalError") = Attempts
              /\ Cardinality(Attempts) >= result.max_retries

\* What bounds the attempts of a call: max_retries, or 0 below 1.
AttemptsAllowed == IF result.max_retries > 0 THEN result.max_retries ELSE 0

ConnectBounds ==
    result.call = "connect_with_retries" =>
        /\ Cardinality(Attempts) <= AttemptsAllowed
        /\ \A k \in Events("connected") : k = Len(result.log)
        /\ \A k \in Attempts : k < Len(result.log) => result.log[k + 1].event = "sleep"
        /\ \A k \in Events("sleep") :
              /\ result.log[k].seconds = result.retry_interval
              /\ k > 1
              /\ result.log[k - 1].event = "OperationalError"
              /\ result.pc \in {"returned", "raised"} => k < Len(result.log)
        /\ Cardinality(Events("sleep")) <=
              (IF AttemptsAllowed > 0 THEN AttemptsAllowed - 1 ELSE 0)

\* C28: connect_with_retries always terminates; it makes at most max_retries
\* attempts and none after the first success, sleeps retry_interval between
\* two consecutive attempts and not after the last failed one (at most
\* max_retries - 1 sleeps).
C28_Terminates ==
    /\ []ConnectBounds
    /\ <>(result.pc \in {"returned", "raised"})

\* Every attempt failed: as many attempts as allowed, one sleep fewer.
C28_Witness ==
    /\ ConnectOver /\ result.returned = "False"
    /\ result.max_retries = MaxRetriesTried /\ result.retry_interval > 0
    /\ Cardinality(Attempts) = MaxRetriesTried
    /\ Cardinality(Events("sleep")) = MaxRetriesTried - 1

\* The place of a statement of main.py in the order of the start.
MainRank(main) ==
    CASE main = "connect" -> 1
      [] main = "create_all" -> 2
      [] main = SeedSteps[1] -> 3
      [] main = SeedSteps[2] -> 4
      [] main = SeedSteps[3] -> 5
      [] main = SeedSteps[4] -> 6
      [] main = "app" -> 7
      [] main = "serving" -> 8
      [] OTHER -> 0

Seeding == {SeedSteps[k] : k \in DOMAIN SeedSteps}

\* C29: the start runs connect, create tables, seed data, serve, in this
\* order; the application is created and serves only after a connection
\* attempt and the creation of the tables succeeded; if either fails the
\* process exits with status 1 and never serves; a failure of init_db does
\* not keep the application from serving.
C29_StartupOrder ==
    [][LET c == result
           d == result'
       IN  /\ MainRank(d.main) >= 2 =>
                 d.returned = "True" /\ Events("connected")' = {Len(d.log)}
           /\ MainRank(d.main) >= 3 => d.tables = "created"
           /\ reqs' # reqs => c.main = "serving"
           /\ (c.main = "connect" /\ d.main # "connect" /\ c.returned # "True")
                 => d.main = "exit(1)"
           /\ (c.main = "create_all" /\ d.tables = "failed") => d.main = "exit(1)"
           /\ c.main = "exit(1)" =>
                 reqs' = reqs /\ (d.main = "exit(1)" \/ d.runs = c.runs + 1)
           /\ (d.runs = c.runs /\ d.main # c.main) =>
                 \/ MainRank(d.main) = MainRank(c.main) + 1
                 \/ c.main \in Seeding /\ d.main = "app"
                 \/ c.main \in {"connect", "create_all"} /\ d.main = "exit(1)"]_vars

\* init_db raised, and the application serves: it has answered a request.
C29_Witness ==
    /\ result.main = "serving" /\ result.seeded = "raised" /\ result.runs = 1
    /\ \E i \in Slots : reqs[i].kind = "root" /\ reqs[i].response = Success(200)

AllSeeded ==
    /\ DOMAIN users # {} /\ DOMAIN movies # {}
    /\ comments # {} /\ ratings # {}

StoreUnchanged ==
    users' = users /\ movies' = movies /\ comments' = comments /\ ratings' = ratings

\* C30: a seed step inserts nothing when its table holds a row, so init_db
\* on a database it has seeded leaves every table unchanged; the ratings it
\* seeds hold at most one rating per (user, movie).
C30_SeedOnce ==
    [][/\ (result.main = SeedSteps[1] /\ DOMAIN users # {}) => StoreUnchanged
       /\ (result.main = SeedSteps[2] /\ DOMAIN movies # {}) => StoreUnchanged
       /\ (result.main = SeedSteps[3] /\ comments # {}) => StoreUnchanged
       /\ (result.main = SeedSteps[4] /\ ratings # {}) => StoreUnchanged
       /\ (result.main \in Seeding /\ AllSeeded) => StoreUnchanged
       /\ \A x, y \in ratings' :
             (x.user = y.user /\ x.movie = y.movie) => x = y]_vars

\* The process was started again on the database the first run has seeded,
\* and init_db has gone through its first three steps a second time.
C30_Witness ==
    /\ result.runs = 2 /\ result.main = SeedSteps[4]
    /\ AllSeeded

====
